---- MODULE Spec2Model ----
(***************************************************************************)
(* The single-active-session authority (SessionService) over the Store     *)
(* Client (RedisClient).  Every store call is an await point, so every     *)
(* store call is one atomic step of the call that issues it; the calls of  *)
(* different requests interleave at these steps.                           *)
(*                                                                         *)
(* Values.  A string is a TLA+ string.  A value handled by the JavaScript  *)
(* code is a tagged record: Null, Str(s), Num(s) (the number the text s    *)
(* denotes), Obj(r), or JStr(r) (a string holding the JSON rendering of    *)
(* r).  What the store holds is a text: Text(s) for a plain string,        *)
(* JsonText(r) for the JSON rendering of the session record r.  createdAt  *)
(* and metadata of the record are never read by any operation and are left *)
(* out of r.                                                               *)
(***************************************************************************)
EXTENDS Integers, Sequences, FiniteSets, TLC

VARIABLES store, now, nextSid, calls, orphans, failures, handover,
          client, conns, ops, written

\* the Store Client object, the cluster connections it has created, the
\* Store Client operations under way, and the value last given to set (history)
clientVars == <<client, conns, ops, written>>

vars == <<store, now, nextSid, calls, orphans, failures, handover, clientVars>>

(* ------------------------------ bounds -------------------------------- *)
\* number of session ids generateSessionId hands out in a run
MaxSessions == 2
\* the clock stops after this many ticks
MaxTime == 3
\* clock ticks that make up SESSION_TTL (granularity of time)
TicksPerTTL == 2
\* store calls, connects, quits and connections that fail in a run
MaxFailures == 1
\* cluster connections the Store Client creates in a run
MaxConnections == 2

\* the requests served concurrently
Procs == {1, 2}
Users == {"u1"}

(* ------------------------- program constants -------------------------- *)
SESSION_TTL == 24 * 60 * 60
SESSION_TIMEOUT == 24 * 60 * 60 * 1000
SESSION_PREFIX == "session:"
SESSION_ID_PREFIX == "sessionId:"
USER_SESSIONS_PREFIX == "user_sessions:"
ACTIVE_SESSION_PREFIX == "active_session:"

TickSeconds == SESSION_TTL \div TicksPerTTL
\* Date.now(), in milliseconds
DateNow(t) == t * TickSeconds * 1000
\* remaining time-to-live of a key stored without expiry (what TTL reports)
NoTTL == 0 - 1

(* --------------------------- JavaScript values ------------------------ *)
Null == [t |-> "null"]
Str(s) == [t |-> "str", s |-> s]
Num(s) == [t |-> "num", s |-> s]
Obj(r) == [t |-> "obj", r |-> r]
\* a string whose characters are the JSON rendering of the record r
JStr(r) == [t |-> "jstr", r |-> r]
\* {}
EmptyObj == [t |-> "obj", r |-> <<>>]

Text(s) == [t |-> "text", s |-> s]
JsonText(r) == [t |-> "json", r |-> r]

\* decimal rendering of SESSION_TTL, as String(86400) gives it
TTLText == "86400"

\* generateSessionId: 32 random bytes as 64 hex characters.  HexSid(n) stands
\* for an id with at least one of the letters a-f at a place that makes it
\* unreadable as JSON; DigitSid(n) for an id that reads as a JSON number
\* (decimal digits only, first digit not 0).
HexSid(n) == "a" \o ToString(n)
DigitSid(n) == "9" \o ToString(n)
generateSessionId(n, digits) == IF digits THEN DigitSid(n) ELSE HexSid(n)
SessionIds == {generateSessionId(n, d) : n \in 1 .. MaxSessions + 1, d \in BOOLEAN}
\* a session id no createSession ever returned
ForgedSid == "f0"

IsJSONNumber(s) == s = TTLText \/ \E n \in 1 .. MaxSessions + 1 : s = DigitSid(n)

\* JSON.parse(value) with the fallback of RedisClient.get: the parsed value,
\* or the raw string when the text is not JSON
JSONParseOrRaw(txt) ==
    IF txt.t = "json" THEN Obj(txt.r)
    ELSE IF IsJSONNumber(txt.s) THEN Num(txt.s)
    ELSE Str(txt.s)

\* String(value) for a non-object, JSON.stringify(value) for an object
StringValue(v) ==
    IF v.t \in {"obj", "jstr"} THEN JsonText(v.r)
    ELSE Text(v.s)

\* `${v}`: a string is itself; 86400 prints as its digits; a 64-digit number
\* prints in exponent notation, which is not the text it was parsed from
TemplateText(v) ==
    IF v.t = "str" THEN v.s
    ELSE IF v.t = "num" /\ v.s = TTLText THEN TTLText
    ELSE IF v.t = "num" THEN "e+" \o v.s
    ELSE "null"

Truthy(v) == v.t \in {"obj", "num", "jstr"} \/ (v.t = "str" /\ v.s # "")

(* ------------------------------- keys --------------------------------- *)
getSessionKey(userId) == <<SESSION_PREFIX, userId>>
getSessionIdKey(sessionId) == <<SESSION_ID_PREFIX, sessionId>>
getUserSessionsKey(userId) == <<USER_SESSIONS_PREFIX, userId>>
getActiveSessionKey(userId) == <<ACTIVE_SESSION_PREFIX, userId>>

(* ------------------------------ the store ----------------------------- *)
Exists(st, key) == key \in DOMAIN st

\* client.set(key, text) / client.set(key, text, 'EX', ttl)
StorePut(st, key, txt, ttl) ==
    [k \in DOMAIN st \cup {key} |-> IF k = key THEN [val |-> txt, ttl |-> ttl] ELSE st[k]]

\* client.del(key)
StoreDel(st, key) == [k \in DOMAIN st \ {key} |-> st[k]]

\* client.expire(key, ttl): no effect on a missing key
StoreExpire(st, key, ttl) ==
    IF Exists(st, key) THEN [st EXCEPT ![key].ttl = ttl] ELSE st

\* options.ttl of RedisClient.set: a string has no ttl property
OptionsTtl(options) ==
    IF options.t = "obj" /\ "ttl" \in DOMAIN options.r THEN options.r.ttl ELSE 0

\* RedisClient.set(key, value, options = {}); arg4 is the fourth argument of
\* the call, for which the method has no parameter
RedisSet(st, key, value, options, arg4) ==
    IF OptionsTtl(options) # 0
    THEN StorePut(st, key, StringValue(value), OptionsTtl(options))
    ELSE StorePut(st, key, StringValue(value), NoTTL)

\* RedisClient.get(key)
RedisGet(st, key) ==
    IF ~Exists(st, key) THEN Null
    ELSE IF st[key].val.t = "text" /\ st[key].val.s = "" THEN Null
    ELSE JSONParseOrRaw(st[key].val)

\* SessionService.safeStringify
safeStringify(v) == IF v.t = "obj" THEN JStr(v.r) ELSE v

\* SessionService.safeParse applied to what RedisClient.get returned: an
\* object is returned as it is, a number is not a string (null), and a string
\* came back raw from get because it is not JSON, so parsing it fails (null)
safeParse(v) == IF v.t = "obj" THEN v ELSE Null

\* SessionService.setJson(key, value, ttl), the store call succeeding
setJson(st, key, value, ttl) ==
    IF ttl # 0
    THEN RedisSet(st, key, safeStringify(value), Str("EX"), ttl)
    ELSE RedisSet(st, key, safeStringify(value), EmptyObj, 0)

\* SessionService.getJson(key), the store call succeeding
getJson(st, key) == safeParse(RedisGet(st, key))

(* ------------------------- results of the calls ----------------------- *)
NoRet == [t |-> "none"]
\* the call threw
Raised == [t |-> "raised"]
\* removeSession returned
Void == [t |-> "void"]
Bool(b) == [t |-> "bool", b |-> b]
\* {isValid, error, session} of validateSession
Verdict(isValid, error, session) ==
    [t |-> "verdict", isValid |-> isValid, error |-> error, session |-> session]
\* {sessionId, expiresIn, sessionData} of createSession
Created(sessionId, sessionData) ==
    [t |-> "created", sessionId |-> sessionId, expiresIn |-> SESSION_TTL,
     sessionData |-> sessionData]

\* sessionData of createSession
SessionData(userId, sessionId, t) ==
    Obj([userId |-> userId, sessionId |-> sessionId, lastActivity |-> DateNow(t)])

\* mutant of Touch: lastActivity is left as it was read
TouchNothing(data, t) == data

\* sessionData.lastActivity = Date.now()
Touch(data, t) == Obj([data.r EXCEPT !.lastActivity = DateNow(t)])

(* ------------------------------- calls -------------------------------- *)
\* op: the operation called; pc: the store call it is about to issue;
\* userId, sessionId: its arguments ("" for an absent one); sid: the id
\* generateSessionId gives it; rmSid: the sessionId argument of the
\* removeSession it runs; data: its sessionData; ptr: the pointer value
\* getActiveSession read; pend: the store calls of its Promise.all that have
\* not completed; ret: what it returned; pre: the text of the Active Session
\* Pointer when createSession or removeSession was called (history, see
\* PriorSession)
IdleCall ==
    [op |-> "none", pc |-> "idle", userId |-> "", sessionId |-> "", sid |-> "",
     rmSid |-> "", data |-> Null, ptr |-> Null, pend |-> {}, ret |-> NoRet,
     pre |-> ""]

\* history of a sequential hand-over: createSession returned s2 to userId
\* while the pointer held s1 when it was called, no other call being under
\* way, and only validateSession calls have followed, no time passing
NoHandover == [userId |-> "", s1 |-> "", s2 |-> ""]

Del(key) == [op |-> "del", key |-> key]
Expire(key) == [op |-> "expire", key |-> key]

\* the effect of one store call of a Promise.all
Apply(st, o) ==
    IF o.op = "del" THEN StoreDel(st, o.key) ELSE StoreExpire(st, o.key, SESSION_TTL)

PointerText(st, userId) ==
    IF Exists(st, getActiveSessionKey(userId))
    THEN st[getActiveSessionKey(userId)].val.s
    ELSE ""

\* a request slot is free when it has no call under way; pc = "done" is the
\* instant at which its last call returned, ret being the result
Callable(p) == calls[p].pc \in {"idle", "done"}

\* pre of a call p starts: history of a sequential run, kept for a call that
\* starts while no other call is under way
PriorSession(p, userId) ==
    IF \A q \in Procs \ {p} : Callable(q) THEN PointerText(store, userId) ELSE ""

(* --------------------------- the Store Client ------------------------- *)
\* this.cluster = null
NoCluster == 0
Connections == 1 .. MaxConnections

\* constructor of RedisClient
NewClient == [cluster |-> NoCluster, isConnected |-> FALSE]

\* a cluster connection: status none (not created), connecting, ready or
\* closed; onError: the 'error' handler of connect() is registered on it
NoConnection == [status |-> "none", onError |-> FALSE]

\* a Store Client operation (get, set, del, expire, quit) of a caller: pc
\* cn_info while its connect() awaits cluster.info(), quitting while quit()
\* awaits cluster.quit(); conn: the connection that await is on; handle: the
\* handle connect() returned to it; ret: what it returned
IdleOp ==
    [op |-> "none", pc |-> "idle", value |-> Null, options |-> EmptyObj,
     conn |-> NoCluster, handle |-> NoCluster, ret |-> NoRet]

\* no set since the key was last deleted
Unwritten == [t |-> "unwritten"]

Init ==
    /\ store = <<>>
    /\ now = 0
    /\ nextSid = 1
    /\ calls = [p \in Procs |-> IdleCall]
    /\ orphans = {}
    /\ failures = 0
    /\ handover = NoHandover
    /\ client = NewClient
    /\ conns = [c \in Connections |-> NoConnection]
    /\ ops = [p \in Procs |-> IdleOp]
    /\ written = Unwritten

\* a store call fails only while the run has failures left
MayFail(fail) == fail => failures < MaxFailures
Count(fail) == failures' = IF fail THEN failures + 1 ELSE failures

\* the call of p returns ret (or throws, ret = Raised); its locals are gone
Finish(p, ret) ==
    calls' = [calls EXCEPT ![p] =
        [IdleCall EXCEPT !.op = calls[p].op, !.pc = "done", !.userId = calls[p].userId,
                         !.sessionId = calls[p].sessionId, !.pre = calls[p].pre,
                         !.ret = ret]]

Goto(p, pc) == calls' = [calls EXCEPT ![p].pc = pc]

Begin(p, op, userId, sessionId, pc) ==
    calls' = [calls EXCEPT ![p] =
        [IdleCall EXCEPT !.op = op, !.pc = pc, !.userId = userId,
                         !.sessionId = sessionId]]

\* store-level expiry: a key whose time-to-live has run out is gone
Expired(st, k) == st[k].ttl # NoTTL /\ st[k].ttl <= TickSeconds
Age(st) ==
    [k \in {j \in DOMAIN st : ~Expired(st, j)} |->
        IF st[k].ttl = NoTTL THEN st[k]
        ELSE [st[k] EXCEPT !.ttl = st[k].ttl - TickSeconds]]

\* time passes, by one tick of the clock.  A tick is hours long and a call
\* takes milliseconds: the clock ticks between calls, not inside one.  The
\* results returned before are history
Tick ==
    /\ now < MaxTime
    /\ \A p \in Procs : Callable(p)
    /\ now' = now + 1
    /\ store' = Age(store)
    /\ calls' = [p \in Procs |-> IF calls[p].pc = "done" THEN IdleCall ELSE calls[p]]
    /\ handover' = NoHandover
    /\ UNCHANGED <<clientVars, nextSid, orphans, failures>>

(* ----------------------- removeAllUserSessions ------------------------ *)
\* the deletes removeAllUserSessions issues, sessionId being what it read
\* from the User-Session Index
RemoveAllDeletes(userId, sessionId) ==
    {Del(getActiveSessionKey(userId)), Del(getUserSessionsKey(userId))}
    \cup IF Truthy(sessionId)
         THEN {Del(getSessionKey(userId)), Del(getSessionIdKey(TemplateText(sessionId)))}
         ELSE {}

\* mutant of AfterRemoveAll: the catch block of removeAllUserSessions throws
\* the error on, as the one of removeSession does
AfterRemoveAllRethrowing(p, ok) ==
    IF calls[p].op = "removeAllUserSessions"
    THEN Finish(p, IF ok THEN Bool(TRUE) ELSE Raised)
    ELSE IF ok
         THEN calls' = [calls EXCEPT ![p].pc = "cs_set_record", ![p].pend = {},
                            ![p].data = SessionData(calls[p].userId, calls[p].sid, now)]
         ELSE Finish(p, Raised)

\* removeAllUserSessions returned ok to the call of p: its own caller gets the
\* boolean; createSession does not look at it and goes on to build sessionData
AfterRemoveAll(p, ok) ==
    IF calls[p].op = "removeAllUserSessions"
    THEN Finish(p, Bool(ok))
    ELSE calls' = [calls EXCEPT ![p].pc = "cs_set_record", ![p].pend = {},
                                ![p].data = SessionData(calls[p].userId, calls[p].sid, now)]

Call_removeAllUserSessions(p, userId) ==
    /\ Callable(p)
    /\ Begin(p, "removeAllUserSessions", userId, "", "ra_get")
    /\ handover' = NoHandover
    /\ UNCHANGED <<clientVars, store, now, nextSid, orphans, failures>>

\* const sessionId = await redisClientInstance.get(userSessionsKey)
RA_Get(p, fail) ==
    /\ calls[p].pc = "ra_get"
    /\ MayFail(fail) /\ Count(fail)
    /\ IF fail
       THEN AfterRemoveAll(p, FALSE)
       ELSE calls' = [calls EXCEPT ![p].pc = "ra_dels",
                ![p].pend = RemoveAllDeletes(calls[p].userId,
                                RedisGet(store, getUserSessionsKey(calls[p].userId)))]
    /\ UNCHANGED <<clientVars, store, now, nextSid, orphans, handover>>

\* await Promise.all(deletePromises): one delete completes
RA_Del(p, o, fail) ==
    /\ calls[p].pc = "ra_dels"
    /\ o \in calls[p].pend
    /\ MayFail(fail) /\ Count(fail)
    /\ IF fail
       THEN /\ AfterRemoveAll(p, FALSE)
            /\ orphans' = orphans \cup (calls[p].pend \ {o})
            /\ store' = store
       ELSE /\ store' = Apply(store, o)
            /\ orphans' = orphans
            /\ IF calls[p].pend = {o}
               THEN AfterRemoveAll(p, TRUE)
               ELSE calls' = [calls EXCEPT ![p].pend = calls[p].pend \ {o}]
    /\ UNCHANGED <<clientVars, now, nextSid, handover>>

(* ---------------------------- createSession --------------------------- *)
\* redisClientInstance.set(sessionIdKey, this.SESSION_TTL, userId.toString())
SetSessionIdMapping(st, userId, sessionId) ==
    RedisSet(st, getSessionIdKey(sessionId), Num(TTLText), Str(userId), 0)

\* mutant of SetUserSessions: the index is written with the session id as its
\* value, so that removeSession recognises the session it is given
SetUserSessionsHoldingId(st, userId, sessionId) ==
    RedisSet(st, getUserSessionsKey(userId), Str(sessionId), Str("EX"), SESSION_TTL)

\* redisClientInstance.set(userSessionsKey, this.SESSION_TTL, sessionId)
SetUserSessions(st, userId, sessionId) ==
    RedisSet(st, getUserSessionsKey(userId), Num(TTLText), Str(sessionId), 0)

\* redisClientInstance.set(activeSessionKey, sessionId, 'EX', this.SESSION_TTL)
SetActiveSession(st, userId, sessionId) ==
    RedisSet(st, getActiveSessionKey(userId), Str(sessionId), Str("EX"), SESSION_TTL)

\* the id is drawn when the call starts: it depends on nothing the call reads
Call_createSession(p, userId, digits) ==
    /\ Callable(p)
    /\ nextSid <= MaxSessions
    /\ calls' = [calls EXCEPT ![p] =
        [IdleCall EXCEPT !.op = "createSession", !.pc = "ra_get", !.userId = userId,
                         !.sid = generateSessionId(nextSid, digits),
                         !.pre = PriorSession(p, userId)]]
    /\ nextSid' = nextSid + 1
    /\ handover' = NoHandover
    /\ UNCHANGED <<clientVars, store, now, orphans, failures>>

\* mutant of CS_SetRecord: the result of setJson is not looked at, the call
\* goes on to the index and pointer writes when the write failed
CS_SetRecordUnchecked(p, fail) ==
    /\ calls[p].pc = "cs_set_record"
    /\ MayFail(fail) /\ Count(fail)
    /\ store' = IF fail THEN store
                ELSE setJson(store, getSessionKey(calls[p].userId), calls[p].data,
                             SESSION_TTL)
    /\ Goto(p, "cs_set_sessionId")
    /\ UNCHANGED <<clientVars, now, nextSid, orphans, handover>>

\* const saved = await this.setJson(sessionKey, sessionData, this.SESSION_TTL)
CS_SetRecord(p, fail) ==
    /\ calls[p].pc = "cs_set_record"
    /\ MayFail(fail) /\ Count(fail)
    /\ IF fail
       THEN Finish(p, Raised) /\ store' = store
       ELSE /\ store' = setJson(store, getSessionKey(calls[p].userId), calls[p].data,
                                SESSION_TTL)
            /\ Goto(p, "cs_set_sessionId")
    /\ UNCHANGED <<clientVars, now, nextSid, orphans, handover>>

CS_SetSessionId(p, fail) ==
    /\ calls[p].pc = "cs_set_sessionId"
    /\ MayFail(fail) /\ Count(fail)
    /\ IF fail
       THEN Finish(p, Raised) /\ store' = store
       ELSE /\ store' = SetSessionIdMapping(store, calls[p].userId, calls[p].sid)
            /\ Goto(p, "cs_set_userSessions")
    /\ UNCHANGED <<clientVars, now, nextSid, orphans, handover>>

CS_SetUserSessions(p, fail) ==
    /\ calls[p].pc = "cs_set_userSessions"
    /\ MayFail(fail) /\ Count(fail)
    /\ IF fail
       THEN Finish(p, Raised) /\ store' = store
       ELSE /\ store' = SetUserSessions(store, calls[p].userId, calls[p].sid)
            /\ Goto(p, "cs_set_active")
    /\ UNCHANGED <<clientVars, now, nextSid, orphans, handover>>

\* mutant of CS_SetActive: the failure of the last write is swallowed and the
\* call returns as if the pointer had been written
CS_SetActiveSwallowing(p, fail) ==
    /\ calls[p].pc = "cs_set_active"
    /\ MayFail(fail) /\ Count(fail)
    /\ store' = IF fail THEN store
                ELSE SetActiveSession(store, calls[p].userId, calls[p].sid)
    /\ Finish(p, Created(calls[p].sid, calls[p].data))
    /\ handover' = NoHandover
    /\ UNCHANGED <<clientVars, now, nextSid, orphans>>

\* the last write; the call returns {sessionId, expiresIn, sessionData}
CS_SetActive(p, fail) ==
    /\ calls[p].pc = "cs_set_active"
    /\ MayFail(fail) /\ Count(fail)
    /\ IF fail
       THEN Finish(p, Raised) /\ store' = store /\ handover' = handover
       ELSE /\ store' = SetActiveSession(store, calls[p].userId, calls[p].sid)
            /\ Finish(p, Created(calls[p].sid, calls[p].data))
            /\ handover' = IF calls[p].pre # "" /\ \A q \in Procs \ {p} : Callable(q)
                           THEN [userId |-> calls[p].userId, s1 |-> calls[p].pre,
                                 s2 |-> calls[p].sid]
                           ELSE NoHandover
    /\ UNCHANGED <<clientVars, now, nextSid, orphans>>

(* ---------------------------- removeSession --------------------------- *)
\* mutant of RemoveSessionDeletes: the supplied sessionId is not compared
\* with the stored one
RemoveSessionDeletesUncompared(userId, sessionId, stored) ==
    IF sessionId # ""
    THEN {Del(getSessionKey(userId)), Del(getSessionIdKey(sessionId)),
          Del(getUserSessionsKey(userId)), Del(getActiveSessionKey(userId))}
    ELSE IF Truthy(stored)
         THEN {Del(getSessionKey(userId)), Del(getSessionIdKey(TemplateText(stored))),
               Del(getUserSessionsKey(userId)), Del(getActiveSessionKey(userId))}
         ELSE {}

\* the deletes removeSession issues, sessionId being its argument and
\* stored what it read from the User-Session Index
RemoveSessionDeletes(userId, sessionId, stored) ==
    IF sessionId # ""
    THEN IF stored = Str(sessionId)
         THEN {Del(getSessionKey(userId)), Del(getSessionIdKey(sessionId)),
               Del(getUserSessionsKey(userId)), Del(getActiveSessionKey(userId))}
         ELSE {}
    ELSE IF Truthy(stored)
         THEN {Del(getSessionKey(userId)), Del(getSessionIdKey(TemplateText(stored))),
               Del(getUserSessionsKey(userId)), Del(getActiveSessionKey(userId))}
         ELSE {}

\* removeSession returned to the call of p: validateSession, which ran it on
\* soft expiry, answers SESSION_EXPIRED
AfterRemoveSession(p) ==
    IF calls[p].op = "removeSession"
    THEN Finish(p, Void)
    ELSE Finish(p, Verdict(FALSE, "SESSION_EXPIRED", Null))

\* mutant of ValidateCatch: the catch block throws the error on, as the one
\* of removeSession does
ValidateCatchRethrows(p) == Finish(p, Raised)

\* what an exception anywhere in validateSession's try block turns into
ValidateCatch(p) == Finish(p, Verdict(FALSE, "VALIDATION_ERROR", Null))

\* removeSession threw (catch: throw error): validateSession, which ran it
\* inside its try block, catches it
RemoveSessionThrew(p) ==
    IF calls[p].op = "removeSession"
    THEN Finish(p, Raised)
    ELSE ValidateCatch(p)

Call_removeSession(p, userId, sessionId) ==
    /\ Callable(p)
    /\ calls' = [calls EXCEPT ![p] =
        [IdleCall EXCEPT !.op = "removeSession", !.pc = "rs_get", !.userId = userId,
                         !.sessionId = sessionId, !.rmSid = sessionId,
                         !.pre = PriorSession(p, userId)]]
    /\ handover' = NoHandover
    /\ UNCHANGED <<clientVars, store, now, nextSid, orphans, failures>>

\* await redisClientInstance.get(userSessionsKey), in either branch
RS_Get(p, fail) ==
    /\ calls[p].pc = "rs_get"
    /\ MayFail(fail) /\ Count(fail)
    /\ IF fail
       THEN RemoveSessionThrew(p)
       ELSE LET dels == RemoveSessionDeletes(calls[p].userId, calls[p].rmSid,
                            RedisGet(store, getUserSessionsKey(calls[p].userId)))
            IN  IF dels = {}
                THEN AfterRemoveSession(p)
                ELSE calls' = [calls EXCEPT ![p].pc = "rs_dels", ![p].pend = dels]
    /\ UNCHANGED <<clientVars, store, now, nextSid, orphans, handover>>

\* await Promise.all([...del]): one delete completes
RS_Del(p, o, fail) ==
    /\ calls[p].pc = "rs_dels"
    /\ o \in calls[p].pend
    /\ MayFail(fail) /\ Count(fail)
    /\ IF fail
       THEN /\ RemoveSessionThrew(p)
            /\ orphans' = orphans \cup (calls[p].pend \ {o})
            /\ store' = store
       ELSE /\ store' = Apply(store, o)
            /\ orphans' = orphans
            /\ IF calls[p].pend = {o}
               THEN AfterRemoveSession(p)
               ELSE calls' = [calls EXCEPT ![p].pend = calls[p].pend \ {o}]
    /\ UNCHANGED <<clientVars, now, nextSid, handover>>

(* --------------------------- validateSession -------------------------- *)
\* mutant of NotActive: the comparison with the presented id is left out
NotActiveNoCompare(activeSessionId, sessionId) == ~Truthy(activeSessionId)

\* !activeSessionId || activeSessionId !== sessionId
NotActive(activeSessionId, sessionId) ==
    ~Truthy(activeSessionId) \/ activeSessionId # Str(sessionId)

\* Date.now() - sessionData.lastActivity > SESSION_TIMEOUT
SoftExpired(sessionData, t) == DateNow(t) - sessionData.r.lastActivity > SESSION_TIMEOUT

\* the keys whose expiry validateSession renews after the record
ValidateExpires(userId, sessionId) ==
    {Expire(getActiveSessionKey(userId)), Expire(getUserSessionsKey(userId)),
     Expire(getSessionIdKey(sessionId))}

\* a call that passes validateSession("", s) or (u, "") returns at once
Call_validateSession(p, userId, sessionId) ==
    /\ Callable(p)
    /\ IF userId = "" \/ sessionId = ""
       THEN calls' = [calls EXCEPT ![p] =
                [IdleCall EXCEPT !.op = "validateSession", !.pc = "done",
                    !.userId = userId, !.sessionId = sessionId,
                    !.ret = Verdict(FALSE, "INVALID_PARAMETERS", Null)]]
       ELSE Begin(p, "validateSession", userId, sessionId, "vs_get_active")
    /\ UNCHANGED <<clientVars, store, now, nextSid, orphans, failures, handover>>

\* mutant of VS_GetActive: a rejected call deletes the pointer it read, as
\* getActiveSession does with a dangling one
VS_GetActiveDeleting(p, fail) ==
    /\ calls[p].pc = "vs_get_active"
    /\ MayFail(fail) /\ Count(fail)
    /\ IF fail
       THEN ValidateCatch(p) /\ store' = store
       ELSE IF NotActive(RedisGet(store, getActiveSessionKey(calls[p].userId)),
                         calls[p].sessionId)
            THEN /\ Finish(p, Verdict(FALSE, "INVALID_SESSION", Null))
                 /\ store' = StoreDel(store, getActiveSessionKey(calls[p].userId))
            ELSE Goto(p, "vs_get_record") /\ store' = store
    /\ UNCHANGED <<clientVars, now, nextSid, orphans, handover>>

\* const activeSessionId = await redisClientInstance.get(activeSessionKey)
VS_GetActive(p, fail) ==
    /\ calls[p].pc = "vs_get_active"
    /\ MayFail(fail) /\ Count(fail)
    /\ IF fail
       THEN ValidateCatch(p)
       ELSE IF NotActive(RedisGet(store, getActiveSessionKey(calls[p].userId)),
                         calls[p].sessionId)
            THEN Finish(p, Verdict(FALSE, "INVALID_SESSION", Null))
            ELSE Goto(p, "vs_get_record")
    /\ UNCHANGED <<clientVars, store, now, nextSid, orphans, handover>>

\* mutant of VS_GetRecord: the record is taken out of the store when it is
\* read, to be put back by the write that follows
VS_GetRecordTaking(p, fail) ==
    /\ calls[p].pc = "vs_get_record"
    /\ MayFail(fail) /\ Count(fail)
    /\ LET sessionData == IF fail THEN Null
                          ELSE getJson(store, getSessionKey(calls[p].userId))
       IN  IF ~Truthy(sessionData)
           THEN Finish(p, Verdict(FALSE, "SESSION_NOT_FOUND", Null))
           ELSE IF SoftExpired(sessionData, now)
                THEN calls' = [calls EXCEPT ![p].pc = "rs_get", ![p].rmSid = "",
                                            ![p].data = sessionData]
                ELSE calls' = [calls EXCEPT ![p].pc = "vs_set_record",
                                            ![p].data = Touch(sessionData, now)]
    /\ store' = IF fail THEN store ELSE StoreDel(store, getSessionKey(calls[p].userId))
    /\ UNCHANGED <<clientVars, now, nextSid, orphans, handover>>

\* const sessionData = await this.getJson(sessionKey): getJson answers null
\* when the store call fails
VS_GetRecord(p, fail) ==
    /\ calls[p].pc = "vs_get_record"
    /\ MayFail(fail) /\ Count(fail)
    /\ LET sessionData == IF fail THEN Null
                          ELSE getJson(store, getSessionKey(calls[p].userId))
       IN  IF ~Truthy(sessionData)
           THEN Finish(p, Verdict(FALSE, "SESSION_NOT_FOUND", Null))
           ELSE IF SoftExpired(sessionData, now)
                THEN calls' = [calls EXCEPT ![p].pc = "rs_get", ![p].rmSid = "",
                                            ![p].data = sessionData]
                ELSE calls' = [calls EXCEPT ![p].pc = "vs_set_record",
                                            ![p].data = Touch(sessionData, now)]
    /\ UNCHANGED <<clientVars, store, now, nextSid, orphans, handover>>

\* mutant of VS_SetRecord: the result of setJson is not looked at, the call
\* goes on to refresh the other slots when the write failed
VS_SetRecordUnchecked(p, fail) ==
    /\ calls[p].pc = "vs_set_record"
    /\ MayFail(fail) /\ Count(fail)
    /\ store' = IF fail THEN store
                ELSE setJson(store, getSessionKey(calls[p].userId), calls[p].data,
                             SESSION_TTL)
    /\ calls' = [calls EXCEPT ![p].pc = "vs_expires",
            ![p].pend = ValidateExpires(calls[p].userId, calls[p].sessionId)]
    /\ UNCHANGED <<clientVars, now, nextSid, orphans, handover>>

\* const updated = await this.setJson(sessionKey, sessionData, this.SESSION_TTL)
VS_SetRecord(p, fail) ==
    /\ calls[p].pc = "vs_set_record"
    /\ MayFail(fail) /\ Count(fail)
    /\ IF fail
       THEN Finish(p, Verdict(FALSE, "UPDATE_FAILED", Null)) /\ store' = store
       ELSE /\ store' = setJson(store, getSessionKey(calls[p].userId), calls[p].data,
                                SESSION_TTL)
            /\ calls' = [calls EXCEPT ![p].pc = "vs_expires",
                    ![p].pend = ValidateExpires(calls[p].userId, calls[p].sessionId)]
    /\ UNCHANGED <<clientVars, now, nextSid, orphans, handover>>

\* await Promise.all([...expire]): one expire completes
VS_Expire(p, o, fail) ==
    /\ calls[p].pc = "vs_expires"
    /\ o \in calls[p].pend
    /\ MayFail(fail) /\ Count(fail)
    /\ IF fail
       THEN /\ ValidateCatch(p)
            /\ orphans' = orphans \cup (calls[p].pend \ {o})
            /\ store' = store
       ELSE /\ store' = Apply(store, o)
            /\ orphans' = orphans
            /\ IF calls[p].pend = {o}
               THEN Finish(p, Verdict(TRUE, "", calls[p].data))
               ELSE calls' = [calls EXCEPT ![p].pend = calls[p].pend \ {o}]
    /\ UNCHANGED <<clientVars, now, nextSid, handover>>

(* -------------------------- updateLastActivity ------------------------ *)
UpdateExpires(userId) ==
    {Expire(getActiveSessionKey(userId)), Expire(getUserSessionsKey(userId))}

Call_updateLastActivity(p, userId) ==
    /\ Callable(p)
    /\ Begin(p, "updateLastActivity", userId, "", "ua_get_record")
    /\ handover' = NoHandover
    /\ UNCHANGED <<clientVars, store, now, nextSid, orphans, failures>>

\* const sessionData = await this.getJson(sessionKey); no session: throw,
\* caught, return false
UA_GetRecord(p, fail) ==
    /\ calls[p].pc = "ua_get_record"
    /\ MayFail(fail) /\ Count(fail)
    /\ LET sessionData == IF fail THEN Null
                          ELSE getJson(store, getSessionKey(calls[p].userId))
       IN  IF ~Truthy(sessionData)
           THEN Finish(p, Bool(FALSE))
           ELSE calls' = [calls EXCEPT ![p].pc = "ua_set_record",
                                       ![p].data = Touch(sessionData, now)]
    /\ UNCHANGED <<clientVars, store, now, nextSid, orphans, handover>>

UA_SetRecord(p, fail) ==
    /\ calls[p].pc = "ua_set_record"
    /\ MayFail(fail) /\ Count(fail)
    /\ IF fail
       THEN Finish(p, Bool(FALSE)) /\ store' = store
       ELSE /\ store' = setJson(store, getSessionKey(calls[p].userId), calls[p].data,
                                SESSION_TTL)
            /\ calls' = [calls EXCEPT ![p].pc = "ua_expires",
                                      ![p].pend = UpdateExpires(calls[p].userId)]
    /\ UNCHANGED <<clientVars, now, nextSid, orphans, handover>>

UA_Expire(p, o, fail) ==
    /\ calls[p].pc = "ua_expires"
    /\ o \in calls[p].pend
    /\ MayFail(fail) /\ Count(fail)
    /\ IF fail
       THEN /\ Finish(p, Bool(FALSE))
            /\ orphans' = orphans \cup (calls[p].pend \ {o})
            /\ store' = store
       ELSE /\ store' = Apply(store, o)
            /\ orphans' = orphans
            /\ IF calls[p].pend = {o}
               THEN Finish(p, Bool(TRUE))
               ELSE calls' = [calls EXCEPT ![p].pend = calls[p].pend \ {o}]
    /\ UNCHANGED <<clientVars, now, nextSid, handover>>

(* --------------------------- getActiveSession ------------------------- *)
\* {...sessionData, userId, sessionId}
ActiveSession(sessionData, userId, sessionId) ==
    [t |-> "session", userId |-> userId, sessionId |-> sessionId,
     lastActivity |-> sessionData.r.lastActivity]

Call_getActiveSession(p, userId) ==
    /\ Callable(p)
    /\ IF userId = ""
       THEN calls' = [calls EXCEPT ![p] =
                [IdleCall EXCEPT !.op = "getActiveSession", !.pc = "done", !.ret = Null]]
       ELSE Begin(p, "getActiveSession", userId, "", "ga_get_active")
    /\ handover' = NoHandover
    /\ UNCHANGED <<clientVars, store, now, nextSid, orphans, failures>>

\* const sessionId = await redisClientInstance.get(activeSessionKey)
GA_GetActive(p, fail) ==
    /\ calls[p].pc = "ga_get_active"
    /\ MayFail(fail) /\ Count(fail)
    /\ LET sessionId == RedisGet(store, getActiveSessionKey(calls[p].userId))
       IN  IF fail \/ ~Truthy(sessionId)
           THEN Finish(p, Null)
           ELSE calls' = [calls EXCEPT ![p].pc = "ga_get_record", ![p].ptr = sessionId]
    /\ UNCHANGED <<clientVars, store, now, nextSid, orphans, handover>>

\* mutant of GA_GetRecord: with no record the call returns null and leaves
\* the pointer where it is
GA_GetRecordLeaving(p, fail) ==
    /\ calls[p].pc = "ga_get_record"
    /\ MayFail(fail) /\ Count(fail)
    /\ LET sessionData == IF fail THEN Null
                          ELSE getJson(store, getSessionKey(calls[p].userId))
       IN  IF ~Truthy(sessionData)
           THEN Finish(p, Null)
           ELSE Finish(p, ActiveSession(sessionData, calls[p].userId, calls[p].ptr))
    /\ UNCHANGED <<clientVars, store, now, nextSid, orphans, handover>>

\* const sessionData = await this.getJson(sessionKey): null also when the
\* store call fails
GA_GetRecord(p, fail) ==
    /\ calls[p].pc = "ga_get_record"
    /\ MayFail(fail) /\ Count(fail)
    /\ LET sessionData == IF fail THEN Null
                          ELSE getJson(store, getSessionKey(calls[p].userId))
       IN  IF ~Truthy(sessionData)
           THEN Goto(p, "ga_del_active")
           ELSE Finish(p, ActiveSession(sessionData, calls[p].userId, calls[p].ptr))
    /\ UNCHANGED <<clientVars, store, now, nextSid, orphans, handover>>

\* await redisClientInstance.del(activeSessionKey); return null
GA_DelActive(p, fail) ==
    /\ calls[p].pc = "ga_del_active"
    /\ MayFail(fail) /\ Count(fail)
    /\ store' = IF fail THEN store
                ELSE StoreDel(store, getActiveSessionKey(calls[p].userId))
    /\ Finish(p, Null)
    /\ UNCHANGED <<clientVars, now, nextSid, orphans, handover>>

(* ------------------------------ the rest ------------------------------ *)
\* a store call of a Promise.all that rejected is still under way
Orphan(o, fail) ==
    /\ o \in orphans
    /\ MayFail(fail) /\ Count(fail)
    /\ orphans' = orphans \ {o}
    /\ store' = IF fail THEN store ELSE Apply(store, o)
    /\ UNCHANGED <<clientVars, now, nextSid, calls, handover>>

\* the session ids a caller can present: the ones handed out (D: the kinds
\* of id generateSessionId draws), and a forged one
Presentable(D) == {generateSessionId(n, d) : n \in 1 .. nextSid - 1, d \in D}
                  \cup {ForgedSid}

\* the arguments of validateSession: a user and an id, or an absent argument
ValidateArgs(D) ==
    (Users \X Presentable(D)) \cup {<<"", ForgedSid>>, <<"", "">>}
    \cup {<<u, "">> : u \in Users}

\* the steps of each operation, for the requests P and the store-call
\* outcomes F (FALSE: the call succeeds, TRUE: it fails)
RemoveAllSteps(P, F) ==
    \E p \in P, f \in F :
        \/ RA_Get(p, f)
        \/ \E o \in calls[p].pend : RA_Del(p, o, f)

RemoveSteps(P, F) ==
    \E p \in P, f \in F :
        \/ RS_Get(p, f)
        \/ \E o \in calls[p].pend : RS_Del(p, o, f)

CreateSession(P, F, D) ==
    \E p \in P :
        \/ \E u \in Users, d \in D : Call_createSession(p, u, d)
        \/ \E f \in F :
            \/ CS_SetRecord(p, f)
            \/ CS_SetSessionId(p, f)
            \/ CS_SetUserSessions(p, f)
            \/ CS_SetActive(p, f)

ValidateSession(P, F, D) ==
    \E p \in P :
        \/ \E a \in ValidateArgs(D) : Call_validateSession(p, a[1], a[2])
        \/ \E f \in F :
            \/ VS_GetActive(p, f)
            \/ VS_GetRecord(p, f)
            \/ VS_SetRecord(p, f)
            \/ \E o \in calls[p].pend : VS_Expire(p, o, f)

RemoveSession(P, D) ==
    \E p \in P, u \in Users, s \in Presentable(D) \cup {""} : Call_removeSession(p, u, s)

RemoveAllUserSessions(P) ==
    \E p \in P, u \in Users : Call_removeAllUserSessions(p, u)

UpdateLastActivity(P, F) ==
    \E p \in P :
        \/ \E u \in Users : Call_updateLastActivity(p, u)
        \/ \E f \in F :
            \/ UA_GetRecord(p, f)
            \/ UA_SetRecord(p, f)
            \/ \E o \in calls[p].pend : UA_Expire(p, o, f)

GetActiveSession(P, F) ==
    \E p \in P :
        \/ \E u \in Users \cup {""} : Call_getActiveSession(p, u)
        \/ \E f \in F :
            \/ GA_GetActive(p, f)
            \/ GA_GetRecord(p, f)
            \/ GA_DelActive(p, f)

\* one request at a time, every store call succeeding, time passing
NextSeq ==
    \/ Tick
    \/ CreateSession({1}, {FALSE}, BOOLEAN)
    \/ ValidateSession({1}, {FALSE}, BOOLEAN)
    \/ RemoveSession({1}, BOOLEAN)
    \/ RemoveAllUserSessions({1})
    \/ UpdateLastActivity({1}, {FALSE})
    \/ RemoveAllSteps({1}, {FALSE})
    \/ RemoveSteps({1}, {FALSE})

SpecSeq == Init /\ [][NextSeq]_vars

\* concurrent createSession, validateSession and removeSession calls, every
\* store call succeeding, no time passing, session ids that do not read as
\* JSON numbers (those are the matter of SpecSeq and SpecFail)
Next ==
    \/ CreateSession(Procs, {FALSE}, {FALSE})
    \/ ValidateSession(Procs, {FALSE}, {FALSE})
    \/ RemoveSession(Procs, {FALSE})
    \/ RemoveAllSteps(Procs, {FALSE})
    \/ RemoveSteps(Procs, {FALSE})

Spec == Init /\ [][Next]_vars

\* one request at a time, store calls that may fail, time passing, session ids that do not read as JSON numbers
NextFail ==
    \/ Tick
    \/ CreateSession({1}, BOOLEAN, {FALSE})
    \/ ValidateSession({1}, BOOLEAN, {FALSE})
    \/ RemoveSession({1}, {FALSE})
    \/ RemoveAllUserSessions({1})
    \/ UpdateLastActivity({1}, BOOLEAN)
    \/ GetActiveSession({1}, BOOLEAN)
    \/ RemoveAllSteps({1}, BOOLEAN)
    \/ RemoveSteps({1}, BOOLEAN)
    \/ \E o \in orphans, f \in BOOLEAN : Orphan(o, f)

SpecFail == Init /\ [][NextFail]_vars

\* request 1 logs in and out (createSession, removeSession(userId)) while
\* request 2 calls removeSession(userId, sessionId) with the ids it has, every
\* store call succeeding, no time passing
NextRevokeRace ==
    \/ CreateSession({1}, {FALSE}, BOOLEAN)
    \/ RemoveAllSteps({1}, {FALSE})
    \/ \E u \in Users : Call_removeSession(1, u, "")
    \/ \E u \in Users, s \in Presentable(BOOLEAN) : Call_removeSession(2, u, s)
    \/ RemoveSteps(Procs, {FALSE})

SpecRevokeRace == Init /\ [][NextRevokeRace]_vars

\* two requests of the same user log in, each at its own pace, every store
\* call succeeding, no time passing
NextLoginRace ==
    \/ CreateSession(Procs, {FALSE}, BOOLEAN)
    \/ RemoveAllSteps(Procs, {FALSE})

SpecLoginRace == Init /\ [][NextLoginRace]_vars

(* ====================================================================== *)
(*         the Store Client: connect, quit and the four operations        *)
(* ====================================================================== *)
\* the variables of the session service, which the Store Client operations
\* called on their own leave alone
serviceVars == <<now, nextSid, calls, orphans, handover>>

\* the key the callers of the Store Client use
ClientKey == <<"client:", "k">>

\* the values given to set: a string that is not JSON, a string of digits,
\* the empty string, a number, an object, and a string that holds JSON
ClientRecord == [userId |-> "u1", sessionId |-> HexSid(1), lastActivity |-> 0]
ClientValues ==
    {Str(HexSid(1)), Str(DigitSid(1)), Str(""), Num(TTLText), Obj(ClientRecord),
     JStr(ClientRecord)}

\* the options given to set: none, or {ttl: SESSION_TTL}
ClientOptions == {EmptyObj, Obj([ttl |-> SESSION_TTL])}

\* the connections that are open: created and not released
Opened == {c \in Connections : conns[c].status \in {"connecting", "ready"}}

\* the connection a new Redis.Cluster(...) gives: the next one not yet created
Created_(c) == conns[c].status # "none"
NextConnection == Cardinality({c \in Connections : Created_(c)}) + 1

\* if (this.isConnected && this.cluster) return this.cluster
IsConnected == client.isConnected /\ client.cluster # NoCluster

FreeCaller(p) == ops[p].pc \in {"idle", "done"}

\* const client = await this.connect() has given the operation of caller p
\* (o: the operation) the handle h, and its command is issued on h: client.get,
\* client.set, client.del or client.expire
IssueCommand(p, o, h) ==
    /\ store' = IF o.op = "set" THEN RedisSet(store, ClientKey, o.value, o.options, 0)
                ELSE IF o.op = "del" THEN StoreDel(store, ClientKey)
                ELSE IF o.op = "expire" THEN StoreExpire(store, ClientKey, SESSION_TTL)
                ELSE store
    /\ written' = IF o.op = "set" THEN o.value
                  ELSE IF o.op = "del" THEN Unwritten
                  ELSE written
    /\ ops' = [ops EXCEPT ![p] =
            [IdleOp EXCEPT !.op = o.op, !.pc = "done", !.handle = h,
                !.ret = IF o.op = "get" THEN RedisGet(store, ClientKey) ELSE Void]]

\* the operation o a caller starts
NewOp(op, value, options) ==
    [IdleOp EXCEPT !.op = op, !.value = value, !.options = options]

\* mutant of Op_Connected: connect() without its guard creates a connection
\* also when the client is marked connected
Op_ConnectedAnew(p, o) ==
    /\ FreeCaller(p)
    /\ IsConnected
    /\ NextConnection \in Connections
    /\ client' = [client EXCEPT !.cluster = NextConnection]
    /\ conns' = [conns EXCEPT ![NextConnection].status = "connecting"]
    /\ ops' = [ops EXCEPT ![p] = [o EXCEPT !.pc = "cn_info", !.conn = NextConnection]]
    /\ UNCHANGED <<serviceVars, failures, store, written>>

\* get / set / del / expire called while the client is marked connected:
\* connect() returns this.cluster and the command is issued
Op_Connected(p, o) ==
    /\ FreeCaller(p)
    /\ IsConnected
    /\ IssueCommand(p, o, client.cluster)
    /\ UNCHANGED <<serviceVars, failures, client, conns>>

\* get / set / del / expire called while it is not: connect() creates a
\* cluster connection, stores it in this.cluster, registers the 'connect'
\* handler and awaits this.cluster.info()
Op_Connect(p, o) ==
    /\ FreeCaller(p)
    /\ ~IsConnected
    /\ NextConnection \in Connections
    /\ client' = [client EXCEPT !.cluster = NextConnection]
    /\ conns' = [conns EXCEPT ![NextConnection].status = "connecting"]
    /\ ops' = [ops EXCEPT ![p] = [o EXCEPT !.pc = "cn_info", !.conn = NextConnection]]
    /\ UNCHANGED <<serviceVars, failures, store, written>>

\* the 'connect' event of a connection: this.isConnected = true
ConnectEvent(c) ==
    /\ conns[c].status = "connecting"
    /\ conns' = [conns EXCEPT ![c].status = "ready"]
    /\ client' = [client EXCEPT !.isConnected = TRUE]
    /\ UNCHANGED <<serviceVars, failures, store, ops, written>>

\* cluster.info() has answered: connect() registers the 'error' handler on
\* this.cluster and returns this.cluster, whichever connection that is by
\* now, and the command is issued on it; with this.cluster null by now (a
\* quit() has completed) this.cluster.on throws, the catch block marks the
\* client not connected and the operation throws
InfoResolves(p) ==
    /\ ops[p].pc = "cn_info"
    /\ conns[ops[p].conn].status = "ready"
    /\ IF client.cluster = NoCluster
       THEN /\ client' = [client EXCEPT !.isConnected = FALSE]
            /\ ops' = [ops EXCEPT ![p] =
                    [IdleOp EXCEPT !.op = ops[p].op, !.pc = "done", !.ret = Raised]]
            /\ UNCHANGED <<store, written, conns>>
       ELSE /\ conns' = [conns EXCEPT ![client.cluster].onError = TRUE]
            /\ IssueCommand(p, ops[p], client.cluster)
            /\ client' = client
    /\ UNCHANGED <<serviceVars, failures>>

\* cluster.info() has failed: catch: this.isConnected = false; throw error
InfoFails(p) ==
    /\ ops[p].pc = "cn_info"
    /\ conns[ops[p].conn].status = "closed" \/ failures < MaxFailures
    /\ Count(conns[ops[p].conn].status # "closed")
    /\ client' = [client EXCEPT !.isConnected = FALSE]
    /\ ops' = [ops EXCEPT ![p] =
            [IdleOp EXCEPT !.op = ops[p].op, !.pc = "done", !.ret = Raised]]
    /\ UNCHANGED <<serviceVars, store, conns, written>>

\* the 'error' event of a connection on which connect() has registered its
\* handler: this.isConnected = false.  The connection stays open: it is
\* ready as before, or reconnects
ErrorEvent(c, status) ==
    /\ c \in Opened
    /\ conns[c].onError
    /\ MayFail(TRUE) /\ Count(TRUE)
    /\ conns' = [conns EXCEPT ![c].status = status]
    /\ client' = [client EXCEPT !.isConnected = FALSE]
    /\ UNCHANGED <<serviceVars, store, ops, written>>

\* quit(): nothing to do without this.cluster; else await this.cluster.quit()
Call_quit(p) ==
    /\ FreeCaller(p)
    /\ ops' = [ops EXCEPT ![p] =
            IF client.cluster = NoCluster
            THEN [IdleOp EXCEPT !.op = "quit", !.pc = "done", !.ret = Void]
            ELSE [IdleOp EXCEPT !.op = "quit", !.pc = "quitting",
                                !.conn = client.cluster]]
    /\ UNCHANGED <<serviceVars, failures, store, client, conns, written>>

\* cluster.quit() has completed, the connection is released:
\* this.isConnected = false; this.cluster = null
QuitResolves(p) ==
    /\ ops[p].pc = "quitting"
    /\ conns' = [conns EXCEPT ![ops[p].conn].status = "closed"]
    /\ client' = [cluster |-> NoCluster, isConnected |-> FALSE]
    /\ ops' = [ops EXCEPT ![p] =
            [IdleOp EXCEPT !.op = "quit", !.pc = "done", !.ret = Void]]
    /\ UNCHANGED <<serviceVars, failures, store, written>>

\* cluster.quit() has failed: catch: throw error, the client as it was
QuitFails(p) ==
    /\ ops[p].pc = "quitting"
    /\ MayFail(TRUE) /\ Count(TRUE)
    /\ ops' = [ops EXCEPT ![p] =
            [IdleOp EXCEPT !.op = "quit", !.pc = "done", !.ret = Raised]]
    /\ UNCHANGED <<serviceVars, store, client, conns, written>>

\* the operations the callers start
ClientOps ==
    {NewOp("set", v, o) : v \in ClientValues, o \in ClientOptions}
    \cup {NewOp(op, Null, EmptyObj) : op \in {"get", "del", "expire"}}

\* callers of the Store Client, the events of its connections, no time passing
NextClient ==
    \/ \E p \in Procs, o \in ClientOps : Op_Connected(p, o)
    \/ \E p \in Procs, o \in ClientOps : Op_Connect(p, o)
    \/ \E c \in Connections : ConnectEvent(c)
    \/ \E p \in Procs : InfoResolves(p)
    \/ \E p \in Procs : InfoFails(p)
    \/ \E c \in Connections, st \in {"ready", "connecting"} : ErrorEvent(c, st)
    \/ \E p \in Procs : Call_quit(p)
    \/ \E p \in Procs : QuitResolves(p)
    \/ \E p \in Procs : QuitFails(p)

SpecClient == Init /\ [][NextClient]_vars

(* ====================================================================== *)
(*                       what the claims speak about                      *)
(* ====================================================================== *)
HasRecord(st, userId) == Exists(st, getSessionKey(userId))
HasPointer(st, userId) == Exists(st, getActiveSessionKey(userId))
HasIndex(st, userId) == Exists(st, getUserSessionsKey(userId))
HasReverse(st, sessionId) == Exists(st, getSessionIdKey(sessionId))

\* the Session-Id Reverse Index entries in the store (Users has one member,
\* so every one of them belongs to a session of that user)
ReverseKeys(st) == {k \in DOMAIN st : k[1] = SESSION_ID_PREFIX}

\* none of the four slots of the user exists
Purged(st, userId) ==
    /\ ~HasRecord(st, userId)
    /\ ~HasPointer(st, userId)
    /\ ~HasIndex(st, userId)
    /\ ReverseKeys(st) = {}

\* the four slots of the session sessionId of userId
SlotKeys(userId, sessionId) ==
    {getSessionKey(userId), getActiveSessionKey(userId), getUserSessionsKey(userId),
     getSessionIdKey(sessionId)}

\* the error code validateSession(userId, sessionId) returns when it runs
\* alone from the store st at time t and no store call fails; "" for
\* isValid: true
ValidateOutcome(st, t, userId, sessionId) ==
    IF userId = "" \/ sessionId = "" THEN "INVALID_PARAMETERS"
    ELSE IF NotActive(RedisGet(st, getActiveSessionKey(userId)), sessionId)
    THEN "INVALID_SESSION"
    ELSE IF ~Truthy(getJson(st, getSessionKey(userId))) THEN "SESSION_NOT_FOUND"
    ELSE IF SoftExpired(getJson(st, getSessionKey(userId)), t) THEN "SESSION_EXPIRED"
    ELSE ""

\* the call of p has just returned from op
Returned(p, op) == calls[p].pc = "done" /\ calls[p].op = op

Quiescent == \A p \in Procs : Callable(p)

ErrorCodes ==
    {"INVALID_PARAMETERS", "INVALID_SESSION", "SESSION_NOT_FOUND", "SESSION_EXPIRED",
     "UPDATE_FAILED", "VALIDATION_ERROR"}

(* ------------------------------- C1 ----------------------------------- *)
\* C1: sequential run, no store failure: once createSession has returned S2
\* to a user whose prior session was S1, a following validateSession(user, S1)
\* returns INVALID_SESSION and validateSession(user, S2) returns isValid: true.
\* Fails: an S2 that reads as a JSON number comes back from the store as a
\* number, which never equals the string presented.
C1_HandOver ==
    \A p \in Procs :
        (Returned(p, "validateSession") /\ handover # NoHandover
            /\ calls[p].userId = handover.userId) =>
            /\ calls[p].sessionId = handover.s1 =>
                    calls[p].ret = Verdict(FALSE, "INVALID_SESSION", Null)
            /\ calls[p].sessionId = handover.s2 => calls[p].ret.isValid

\* the same for the ids that do not read as JSON numbers (not a claim's
\* formula: it shows where C1_HandOver holds)
HandOverOfOpaqueIds ==
    \A p \in Procs :
        (Returned(p, "validateSession") /\ handover # NoHandover
            /\ calls[p].userId = handover.userId /\ ~IsJSONNumber(handover.s2)) =>
            /\ calls[p].sessionId = handover.s1 =>
                    calls[p].ret = Verdict(FALSE, "INVALID_SESSION", Null)
            /\ calls[p].sessionId = handover.s2 => calls[p].ret.isValid

(* ------------------------------- C2 ----------------------------------- *)
\* C2: in every reachable state, also in the middle of concurrent
\* createSession / validateSession / removeSession calls of the same user,
\* there are no two distinct session ids for which validateSession, run from
\* that state, would return isValid: true.
C2_AtMostOneActive ==
    \A u \in Users :
        Cardinality({s \in SessionIds \cup {ForgedSid} :
                        ValidateOutcome(store, now, u, s) = ""}) <= 1

\* a session validates while a createSession and another call of the same
\* user are under way
C2_Witness ==
    /\ \E s \in SessionIds : ValidateOutcome(store, now, "u1", s) = ""
    /\ \A p \in Procs : ~Callable(p) /\ calls[p].userId = "u1"
    /\ \E p \in Procs : calls[p].op = "createSession" /\ calls[p].pc = "cs_set_active"

(* ------------------------------- C3 ----------------------------------- *)
\* C3: whenever no call is under way, a user has a Session Record if and only
\* if the user has an Active Session Pointer, and the pointer's value is the
\* record's sessionId.
C3_RecordPointerConsistency ==
    Quiescent => \A u \in Users :
        /\ HasRecord(store, u) <=> HasPointer(store, u)
        /\ (HasRecord(store, u) /\ HasPointer(store, u)) =>
                store[getActiveSessionKey(u)].val.s
                    = store[getSessionKey(u)].val.r.sessionId

(* ------------------------------- C4 ----------------------------------- *)
\* C4: when removeSession(userId, S), S being the session the pointer holds,
\* or removeSession(userId) returns, none of the four slots exists and
\* validateSession(userId, S) returns INVALID_SESSION.
C4_LogoutRevokes ==
    \A p \in Procs :
        (/\ Returned(p, "removeSession") /\ calls[p].ret = Void
         /\ calls[p].pre # ""
         /\ calls[p].sessionId \in {calls[p].pre, ""}) =>
            /\ Purged(store, calls[p].userId)
            /\ ValidateOutcome(store, now, calls[p].userId, calls[p].pre)
                    = "INVALID_SESSION"

(* ------------------------------- C5 ----------------------------------- *)
\* C5: when removeAllUserSessions(userId) returns true, none of the four
\* slots exists for the user and validateSession(userId, S) returns
\* INVALID_SESSION for every S.
C5_RemoveAllPurges ==
    \A p \in Procs :
        (Returned(p, "removeAllUserSessions") /\ calls[p].ret = Bool(TRUE)) =>
            /\ Purged(store, calls[p].userId)
            /\ \A s \in SessionIds \cup {ForgedSid} :
                ValidateOutcome(store, now, calls[p].userId, s) = "INVALID_SESSION"

(* ------------------------------- C6 ----------------------------------- *)
\* C6: when validateSession returns SESSION_EXPIRED, all four slots of the
\* session are deleted, and validateSession called again returns
\* INVALID_SESSION.
C6_SoftExpiryPurges ==
    \A p \in Procs :
        (/\ Returned(p, "validateSession")
         /\ calls[p].ret.error = "SESSION_EXPIRED") =>
            /\ Purged(store, calls[p].userId)
            /\ ValidateOutcome(store, now, calls[p].userId, calls[p].sessionId)
                    = "INVALID_SESSION"

(* ------------------------------- C7 ----------------------------------- *)
\* C7: when validateSession returns isValid: true, each of the four slots of
\* the session has a remaining time-to-live of SESSION_TTL.
C7_TtlRefresh ==
    \A p \in Procs :
        (Returned(p, "validateSession") /\ calls[p].ret.isValid) =>
            \A k \in SlotKeys(calls[p].userId, calls[p].sessionId) :
                Exists(store, k) /\ store[k].ttl = SESSION_TTL

(* ------------------------------- C8 ----------------------------------- *)
\* C8: when createSession returns, each of the four slots it wrote has a
\* time-to-live of SESSION_TTL.
C8_TtlOnCreation ==
    \A p \in Procs :
        (Returned(p, "createSession") /\ calls[p].ret.t = "created") =>
            \A k \in SlotKeys(calls[p].userId, calls[p].ret.sessionId) :
                Exists(store, k) /\ store[k].ttl = SESSION_TTL

(* ------------------------------- C9 ----------------------------------- *)
\* C9: when createSession(userId) returns S, the Active Session Pointer and
\* the User-Session Index of userId hold S, the Session-Id Reverse Index of S
\* holds userId, and the Session Record of userId has sessionId S.
C9_SlotContents ==
    \A p \in Procs :
        (Returned(p, "createSession") /\ calls[p].ret.t = "created") =>
            LET u == calls[p].userId
                S == calls[p].ret.sessionId
            IN  /\ \A k \in SlotKeys(u, S) : Exists(store, k)
                /\ store[getActiveSessionKey(u)].val = Text(S)
                /\ store[getUserSessionsKey(u)].val = Text(S)
                /\ store[getSessionIdKey(S)].val = Text(u)
                /\ store[getSessionKey(u)].val.t = "json"
                /\ store[getSessionKey(u)].val.r.sessionId = S

(* ------------------------------- C10 ---------------------------------- *)
\* C10: whatever its arguments and whichever of its store calls fail,
\* validateSession returns a result {isValid, ...}: it never throws, and with
\* isValid: false the result carries one of the error codes.
C10_ValidateNeverRaises ==
    \A p \in Procs :
        Returned(p, "validateSession") =>
            /\ calls[p].ret.t = "verdict"
            /\ calls[p].ret.isValid \in BOOLEAN
            /\ ~calls[p].ret.isValid => calls[p].ret.error \in ErrorCodes

\* a store call of validateSession failed and the call returned a verdict
C10_Witness ==
    /\ failures > 0
    /\ Returned(1, "validateSession")
    /\ calls[1].ret.t = "verdict"
    /\ calls[1].ret.error = "VALIDATION_ERROR"

(* ---------------------- steps of a call, as actions -------------------- *)
\* the step is one of the call of request p
Steps(p) == calls'[p] # calls[p]

\* the step is a store call of the call of p, and the store call failed
StoreCallFailed(p) == Steps(p) /\ failures' > failures

\* with this step the call of p returns from op (or throws)
Returns(p, op) == Steps(p) /\ calls'[p].op = op /\ calls'[p].pc = "done"

(* ------------------------------- C11 ---------------------------------- *)
\* C11: a store call that fails anywhere in validateSession (pointer read,
\* record read, soft-expiry purge, TTL refresh) ends the call with
\* VALIDATION_ERROR, the failed write of the refreshed record alone with
\* UPDATE_FAILED; a store failure is never reported as INVALID_SESSION,
\* SESSION_NOT_FOUND or SESSION_EXPIRED.
\* Fails: getJson catches the failure of the record read and answers null,
\* which validateSession reports as SESSION_NOT_FOUND.
C11_StoreFailureVerdict ==
    [][\A p \in Procs :
        (calls[p].op = "validateSession" /\ StoreCallFailed(p)) =>
            /\ calls'[p].pc = "done"
            /\ calls'[p].ret.t = "verdict"
            /\ calls'[p].ret.error = IF calls[p].pc = "vs_set_record"
                                     THEN "UPDATE_FAILED"
                                     ELSE "VALIDATION_ERROR"]_vars

(* ------------------------------- C12 ---------------------------------- *)
\* C12: validateSession returns isValid: true only after the write of the
\* Session Record with the new lastActivity has succeeded; when that write
\* fails the call returns UPDATE_FAILED at once, no time-to-live of another
\* slot being refreshed.
C12_NoFalsePositive ==
    [][\A p \in Procs :
        (calls[p].op = "validateSession" /\ Steps(p)) =>
            /\ (calls[p].pc = "vs_set_record" /\ failures' > failures) =>
                    /\ calls'[p].pc = "done"
                    /\ calls'[p].ret = Verdict(FALSE, "UPDATE_FAILED", Null)
                    /\ store' = store
                    /\ orphans' = orphans
            /\ (calls[p].pc = "vs_set_record" /\ failures' = failures) =>
                    /\ calls'[p].pc = "vs_expires"
                    /\ calls[p].data.r.lastActivity = DateNow(now)
                    /\ store'[getSessionKey(calls[p].userId)].val
                            = JsonText(calls[p].data.r)
            /\ (calls'[p].pc = "vs_expires" /\ calls[p].pc # "vs_expires") =>
                    calls[p].pc = "vs_set_record" /\ failures' = failures
            /\ (Returns(p, "validateSession") /\ calls'[p].ret.t = "verdict"
                    /\ calls'[p].ret.isValid) =>
                    calls[p].pc = "vs_expires"]_vars

\* the write of the refreshed record failed and the call answered
\* UPDATE_FAILED, the slots being as they were: pointer still without the
\* time-to-live a refresh would have given it
C12_Witness ==
    /\ failures > 0
    /\ Returned(1, "validateSession")
    /\ calls[1].ret = Verdict(FALSE, "UPDATE_FAILED", Null)
    /\ HasPointer(store, "u1")
    /\ store[getActiveSessionKey("u1")].ttl = NoTTL

(* ------------------------------- C13 ---------------------------------- *)
\* the first of the checks of validateSession that applies, in the order and
\* in the words of the claim; "" when none does
FirstCheck(st, t, userId, sessionId) ==
    IF userId = "" \/ sessionId = "" THEN "INVALID_PARAMETERS"
    ELSE IF ~HasPointer(st, userId) \/ PointerText(st, userId) # sessionId
    THEN "INVALID_SESSION"
    ELSE IF ~HasRecord(st, userId) THEN "SESSION_NOT_FOUND"
    ELSE IF DateNow(t) - st[getSessionKey(userId)].val.r.lastActivity > SESSION_TIMEOUT
    THEN "SESSION_EXPIRED"
    ELSE ""

\* a step of the validateSession call of p follows the order of the checks:
\* the call returns the code of the first check that applies when it is one of
\* the first three, and goes on only past the checks that do not apply; it
\* returns SESSION_EXPIRED out of the purge and {isValid: true, session:
\* record} out of the refresh
VerdictOrderStep(p) ==
    LET c == FirstCheck(store, now, calls'[p].userId, calls'[p].sessionId)
        from == calls[p].pc
        to == calls'[p].pc
    IN  /\ from \in {"idle", "done", "vs_get_active", "vs_get_record"} =>
            IF to = "done"
            THEN /\ c \in {"INVALID_PARAMETERS", "INVALID_SESSION", "SESSION_NOT_FOUND"}
                 /\ calls'[p].ret = Verdict(FALSE, c, Null)
            ELSE \/ to = "vs_get_active" /\ c # "INVALID_PARAMETERS"
                 \/ to = "vs_get_record"
                        /\ c \notin {"INVALID_PARAMETERS", "INVALID_SESSION"}
                 \/ to = "rs_get" /\ c = "SESSION_EXPIRED"
                 \/ to = "vs_set_record" /\ c = ""
        /\ (from \in {"rs_get", "rs_dels"} /\ to = "done") =>
                calls'[p].ret = Verdict(FALSE, "SESSION_EXPIRED", Null)
        /\ (from = "vs_expires" /\ to = "done") =>
                /\ calls'[p].ret.isValid
                /\ calls'[p].ret.session
                        = Obj(store'[getSessionKey(calls'[p].userId)].val.r)

\* C13: no store call failing, the verdict of validateSession(userId,
\* sessionId) is that of the first check that applies: INVALID_PARAMETERS
\* (an argument absent), INVALID_SESSION (pointer absent or different from
\* sessionId), SESSION_NOT_FOUND (record absent), SESSION_EXPIRED (more than
\* 24 hours since lastActivity), otherwise {isValid: true, session: record}.
\* Fails: a pointer that holds the very sessionId presented, the id reading as
\* a JSON number, is answered with INVALID_SESSION.
C13_VerdictOrder ==
    [][\A p \in Procs :
        (calls'[p].op = "validateSession" /\ Steps(p)) => VerdictOrderStep(p)]_vars

\* the same for the ids that do not read as JSON numbers (not a claim's
\* formula: it shows where C13_VerdictOrder holds)
VerdictOrderOfOpaqueIds ==
    [][\A p \in Procs :
        (calls'[p].op = "validateSession" /\ Steps(p)
            /\ ~IsJSONNumber(calls'[p].sessionId)) => VerdictOrderStep(p)]_vars

(* ------------------------------- C14 ---------------------------------- *)
\* C14: a validateSession call that returns INVALID_PARAMETERS or
\* INVALID_SESSION has written no slot, deleted none and refreshed no
\* time-to-live: INVALID_PARAMETERS is returned before any store call,
\* INVALID_SESSION out of the read of the pointer, which is the only store
\* call made.
C14_RejectionChangesNothing ==
    [][\A p \in Procs :
        (calls'[p].op = "validateSession" /\ Steps(p)) =>
            /\ calls'[p].pc = "vs_get_active" => store' = store
            /\ (calls'[p].pc = "done" /\ calls'[p].ret.t = "verdict"
                    /\ calls'[p].ret.error = "INVALID_PARAMETERS") =>
                    /\ calls[p].pc \in {"idle", "done"}
                    /\ store' = store /\ orphans' = orphans
            /\ (calls'[p].pc = "done" /\ calls'[p].ret.t = "verdict"
                    /\ calls'[p].ret.error = "INVALID_SESSION") =>
                    /\ calls[p].pc = "vs_get_active"
                    /\ store' = store /\ orphans' = orphans]_vars

\* a superseded or forged id was presented and rejected while the user has a
\* session that validates
C14_Witness ==
    /\ Returned(1, "validateSession")
    /\ calls[1].ret = Verdict(FALSE, "INVALID_SESSION", Null)
    /\ calls[1].sessionId # PointerText(store, "u1")
    /\ \A k \in SlotKeys("u1", PointerText(store, "u1")) : Exists(store, k)
    /\ ValidateOutcome(store, now, "u1", PointerText(store, "u1")) = ""

(* ------------------------------- C15 ---------------------------------- *)
\* C15: sequential run: no step of a removeSession(userId, S1) call, S1
\* being another id than the one the user's pointer holds (S2), changes the
\* store, and the call returns: the four slots of S2 are as they were and
\* validateSession(userId, S2) answers as it did before the call.
C15_StaleRevokeNoOp ==
    [][\A p \in Procs :
        (/\ calls'[p].op = "removeSession" /\ Steps(p)
         /\ calls'[p].sessionId # ""
         /\ HasPointer(store, calls'[p].userId)
         /\ calls'[p].sessionId # PointerText(store, calls'[p].userId)) =>
            /\ store' = store
            /\ calls'[p].pc \in {"rs_get", "done"}
            /\ calls'[p].pc = "done" => calls'[p].ret = Void
            /\ ValidateOutcome(store', now', calls'[p].userId,
                               PointerText(store, calls'[p].userId))
                 = ValidateOutcome(store, now, calls'[p].userId,
                                   PointerText(store, calls'[p].userId))]_vars

\* removeSession(u1, S1) has returned, the pointer holding another id S2 when
\* it was called; the four slots of S2 exist and S2 validates
C15_Witness ==
    /\ Returned(1, "removeSession")
    /\ calls[1].ret = Void
    /\ calls[1].sessionId \in SessionIds
    /\ calls[1].pre \in SessionIds
    /\ calls[1].sessionId # calls[1].pre
    /\ PointerText(store, "u1") = calls[1].pre
    /\ \A k \in SlotKeys("u1", calls[1].pre) : Exists(store, k)
    /\ ValidateOutcome(store, now, "u1", calls[1].pre) = ""

(* ------------------------------- C16 ---------------------------------- *)
\* the store after removeSession(userId, sessionId) has run alone from the
\* store st, no store call failing: its deletes are of distinct keys
StoreAfterRemoveSession(st, userId, sessionId) ==
    LET dels == RemoveSessionDeletes(userId, sessionId,
                    RedisGet(st, getUserSessionsKey(userId)))
    IN  [k \in DOMAIN st \ {o.key : o \in dels} |-> st[k]]

\* C16: sequential run, no store call failing: removeSession(userId) never
\* throws; run a second time right after it returned, it leaves none of the
\* four kinds of slot for the user; and run for a user who has no record, no
\* pointer and no index it changes nothing.
\* Fails: the reverse index entry sessionId:S of the revoked session is
\* left by the first call and by the second.
C16_IdempotentRevoke ==
    \A p \in Procs :
        (Returned(p, "removeSession") /\ calls[p].sessionId = "") =>
            LET u == calls[p].userId
                again == StoreAfterRemoveSession(store, u, "")
            IN  /\ calls[p].ret = Void
                /\ Purged(again, u)
                /\ (~HasRecord(store, u) /\ ~HasPointer(store, u)
                        /\ ~HasIndex(store, u)) => again = store

(* ------------------------------- C17 ---------------------------------- *)
\* C17: when the write of the Session Record fails in createSession, the
\* call ends there with the creation error: no pointer, index or reverse
\* index of the new session is in the store, and the call gets to its index
\* and pointer writes only past a record write that succeeded.
C17_RecordWriteFailureAborts ==
    [][\A p \in Procs :
        (calls[p].op = "createSession" /\ Steps(p)) =>
            /\ (calls[p].pc = "cs_set_record" /\ failures' > failures) =>
                    /\ calls'[p].pc = "done"
                    /\ calls'[p].ret = Raised
                    /\ store' = store
                    /\ orphans' = orphans
                    /\ PointerText(store', calls[p].userId) # calls[p].sid
                    /\ ~HasReverse(store', calls[p].sid)
                    /\ HasIndex(store', calls[p].userId) =>
                            store'[getUserSessionsKey(calls[p].userId)].val
                                # Text(calls[p].sid)
            /\ calls'[p].pc \in {"cs_set_sessionId", "cs_set_userSessions",
                                 "cs_set_active"} =>
                    /\ calls[p].pc \in {"cs_set_record", "cs_set_sessionId",
                                        "cs_set_userSessions"}
                    /\ failures' = failures]_vars

\* createSession threw on the failed write of the record: the user has no
\* record, no pointer and no index
C17_Witness ==
    /\ failures > 0
    /\ orphans = {}
    /\ Returned(1, "createSession")
    /\ calls[1].ret = Raised
    /\ ~HasRecord(store, "u1")
    /\ ~HasPointer(store, "u1")
    /\ ~HasIndex(store, "u1")

(* ------------------------------- C18 ---------------------------------- *)
\* the four writes of createSession in their order, and the key each writes
CreateWrites == <<"cs_set_record", "cs_set_sessionId", "cs_set_userSessions",
                  "cs_set_active">>

WrittenKey(c) ==
    IF c.pc = "cs_set_record" THEN getSessionKey(c.userId)
    ELSE IF c.pc = "cs_set_sessionId" THEN getSessionIdKey(c.sid)
    ELSE IF c.pc = "cs_set_userSessions" THEN getUserSessionsKey(c.userId)
    ELSE getActiveSessionKey(c.userId)

\* C18: createSession either returns {sessionId, expiresIn, sessionData},
\* all four of its slot writes having succeeded one after the other, or
\* throws the creation error: a slot write that fails ends the call with the
\* error, and the slots written before it stay as they are (no rollback).
C18_CreateReturnsOrRaises ==
    [][\A p \in Procs :
        (calls[p].op = "createSession" /\ Steps(p)) =>
            /\ \A i \in 1 .. 4 :
                calls[p].pc = CreateWrites[i] =>
                    IF failures' > failures
                    THEN /\ calls'[p].pc = "done"
                         /\ calls'[p].ret = Raised
                         /\ store' = store
                         /\ orphans' = orphans
                    ELSE /\ Exists(store', WrittenKey(calls[p]))
                         /\ IF i < 4
                            THEN calls'[p].pc = CreateWrites[i + 1]
                            ELSE /\ calls'[p].pc = "done"
                                 /\ calls'[p].ret
                                        = Created(calls[p].sid, calls[p].data)
            /\ \A i \in 2 .. 4 :
                calls'[p].pc = CreateWrites[i] => calls[p].pc = CreateWrites[i - 1]
            /\ Returns(p, "createSession") =>
                    \/ calls'[p].ret = Raised
                    \/ /\ calls'[p].ret.t = "created"
                       /\ calls[p].pc = "cs_set_active"
                       /\ failures' = failures]_vars

\* createSession threw on a write after the record's: the record it wrote is
\* in the store, the pointer is not
C18_Witness ==
    /\ failures > 0
    /\ orphans = {}
    /\ Returned(1, "createSession")
    /\ calls[1].ret = Raised
    /\ HasRecord(store, "u1")
    /\ ~HasPointer(store, "u1")

(* ------------------------------- C19 ---------------------------------- *)
\* C19: removeAllUserSessions never throws: a store call of it that fails
\* ends it with false, and it returns true out of the last of its deletes,
\* every store call before having completed without error.
C19_RemoveAllNeverRaises ==
    [][\A p \in Procs :
        (calls[p].op = "removeAllUserSessions" /\ Steps(p)
            /\ calls[p].pc \in {"ra_get", "ra_dels"}) =>
            /\ calls'[p].pc \in {"ra_dels", "done"}
            /\ IF failures' > failures
               THEN calls'[p].pc = "done" /\ calls'[p].ret = Bool(FALSE)
               ELSE IF calls'[p].pc = "done"
                    THEN /\ calls'[p].ret = Bool(TRUE)
                         /\ calls[p].pc = "ra_dels"
                         /\ Cardinality(calls[p].pend) = 1
                    ELSE /\ calls'[p].pend # {}
                         /\ calls[p].pc = "ra_dels" =>
                                Cardinality(calls'[p].pend)
                                    = Cardinality(calls[p].pend) - 1]_vars

\* a delete of removeAllUserSessions failed after another had completed, and
\* the call returned false
C19_Witness ==
    /\ failures > 0
    /\ Returned(1, "removeAllUserSessions")
    /\ calls[1].ret = Bool(FALSE)
    /\ orphans # {}
    /\ ~HasPointer(store, "u1")
    /\ ReverseKeys(store) # {}

(* ------------------------------- C20 ---------------------------------- *)
\* what getActiveSession(userId) finds at the pointer of the store st
PointerFound(st, userId) == Truthy(RedisGet(st, getActiveSessionKey(userId)))

\* C20: no store call of it failing, a getActiveSession(userId) call that
\* has read the pointer and finds no Session Record goes on to delete the
\* pointer and returns null: a following getActiveSession finds no pointer
\* and a following validateSession answers INVALID_SESSION for every id.
C20_SplitBrainSelfHeal ==
    [][\A p \in Procs :
        (calls[p].op = "getActiveSession" /\ Steps(p) /\ failures' = failures) =>
            /\ (calls[p].pc = "ga_get_record"
                    /\ ~HasRecord(store, calls[p].userId)) =>
                    calls'[p].pc = "ga_del_active"
            /\ calls[p].pc = "ga_del_active" =>
                    /\ calls'[p].pc = "done"
                    /\ calls'[p].ret = Null
                    /\ ~HasPointer(store', calls[p].userId)
                    /\ ~PointerFound(store', calls[p].userId)
                    /\ \A s \in SessionIds \cup {ForgedSid} :
                        ValidateOutcome(store', now', calls[p].userId, s)
                            = "INVALID_SESSION"]_vars

\* the pointer is there and the record is gone (a purge that failed half
\* way), and no store call having failed in it getActiveSession has read the
\* pointer, found no record and is at the delete of the pointer
C20_Witness ==
    /\ calls[1].op = "getActiveSession"
    /\ calls[1].pc = "ga_del_active"
    /\ Truthy(calls[1].ptr)
    /\ HasPointer(store, "u1")
    /\ ~HasRecord(store, "u1")

(* ------------------------------- C21 ---------------------------------- *)
\* C21: updateLastActivity(userId) returns true only when the user has a
\* Session Record, and then the record in the store has lastActivity = now;
\* when the user has none it returns false out of its read, no slot being
\* created or changed.
C21_UpdateLastActivity ==
    [][\A p \in Procs :
        (calls'[p].op = "updateLastActivity" /\ Steps(p)) =>
            /\ calls'[p].pc = "ua_get_record" => store' = store
            /\ (calls[p].pc = "ua_get_record" /\ ~HasRecord(store, calls[p].userId)) =>
                    /\ calls'[p].pc = "done"
                    /\ calls'[p].ret = Bool(FALSE)
                    /\ store' = store
            /\ calls'[p].pc = "ua_set_record" =>
                    calls[p].pc = "ua_get_record" /\ HasRecord(store, calls[p].userId)
            /\ (calls'[p].pc = "ua_expires" /\ calls[p].pc # "ua_expires") =>
                    calls[p].pc = "ua_set_record"
            /\ (calls'[p].pc = "done" /\ calls'[p].ret = Bool(TRUE)) =>
                    /\ calls[p].pc = "ua_expires"
                    /\ HasRecord(store', calls[p].userId)
                    /\ store'[getSessionKey(calls[p].userId)].val.r.lastActivity
                            = DateNow(now')]_vars

\* updateLastActivity returned true some time after the session was created:
\* the record carries the time of the call
C21_Witness ==
    /\ now > 0
    /\ Returned(1, "updateLastActivity")
    /\ calls[1].ret = Bool(TRUE)
    /\ HasRecord(store, "u1")
    /\ store[getSessionKey("u1")].val.r.lastActivity = DateNow(now)

(* ---------------- steps of a Store Client operation -------------------- *)
\* with this step the connect() of the operation of caller p creates a
\* cluster connection
CreatesConnection(p) == ops[p].pc # "cn_info" /\ ops'[p].pc = "cn_info"

\* the connect() of the operation of caller p is in flight
ConnectInFlight(p) == ops[p].pc = "cn_info"

\* with this step the connect() of the operation of caller p returns a handle
ReceivesHandle(p) ==
    ops[p].pc \in {"idle", "done", "cn_info"} /\ ops'[p].pc = "done"
        /\ ops'[p].op \in {"get", "set", "del", "expire"} /\ ops'[p].ret # Raised
        /\ ops'[p] # ops[p]

(* ------------------------------- C22 ---------------------------------- *)
\* C22: a connect() called while another connect() is in flight creates no
\* cluster connection: the callers share the one being established, and each
\* receives as its handle the connection whose establishment it awaited.
\* Fails: connect() keeps no trace of a connect in flight; every caller that
\* finds the client not marked connected creates a connection of its own.
C22_SingleFlightConnect ==
    [][\A p \in Procs :
        /\ CreatesConnection(p) => \A q \in Procs \ {p} : ~ConnectInFlight(q)
        /\ (ConnectInFlight(p) /\ ReceivesHandle(p)) =>
                ops'[p].handle = ops[p].conn]_vars

(* ------------------------------- C23 ---------------------------------- *)
\* with this step caller p starts a get, set, del or expire
StartsOp(p) ==
    /\ ops[p].pc \in {"idle", "done"}
    /\ ops'[p] # ops[p]
    /\ ops'[p].op \in {"get", "set", "del", "expire"}

\* C23: whenever the client is marked connected and holds a connection, the
\* connect() of an operation returns that connection as the handle and
\* creates none: connections and client are as they were, however many
\* operations have been called before.
C23_ConnectIdempotent ==
    [][\A p \in Procs :
        (StartsOp(p) /\ client.isConnected /\ client.cluster # NoCluster) =>
            /\ ops'[p].pc = "done"
            /\ ops'[p].handle = client.cluster
            /\ client.cluster \in Opened
            /\ conns' = conns
            /\ client' = client]_vars

\* one connection has been created, and both callers have been handed it
C23_Witness ==
    /\ client.isConnected
    /\ client.cluster = 1
    /\ \A c \in Connections : Created_(c) <=> c = 1
    /\ \A p \in Procs :
        ops[p].pc = "done" /\ ops[p].op = "get" /\ ops[p].handle = 1

(* ------------------------------- C24 ---------------------------------- *)
\* the open connections among cs
OpenIn(cs) == {c \in Connections : cs[c].status \in {"connecting", "ready"}}

\* with this step the quit() of caller p completes
QuitCompletes(p) ==
    ops'[p] # ops[p] /\ ops'[p].op = "quit" /\ ops'[p].pc = "done"
        /\ ops'[p].ret = Void

\* C24: when quit() completes the client holds no connection (this.cluster
\* is null) and is marked not connected, the connection quit was awaited on
\* being released; an operation called while the client holds no connection
\* creates a new connection in its connect() before its command is issued,
\* and every command is issued on an open connection.
\* Fails: a quit() that finds this.cluster null returns without touching the
\* flag, which the 'connect' event of a connection the client no longer
\* holds may have set.
C24_QuitThenReconnect ==
    [][\A p \in Procs :
        /\ QuitCompletes(p) =>
                /\ client'.cluster = NoCluster
                /\ ~client'.isConnected
                /\ ops[p].pc = "quitting" => ops[p].conn \notin OpenIn(conns')
        /\ (StartsOp(p) /\ client.cluster = NoCluster) =>
                /\ CreatesConnection(p)
                /\ ~Created_(client'.cluster)
                /\ client'.cluster \in OpenIn(conns')
                /\ store' = store
        /\ ReceivesHandle(p) => ops'[p].handle \in OpenIn(conns')]_vars

\* the same for the quit() calls that found a connection to release (not a
\* claim's formula: it shows where C24_QuitThenReconnect holds)
QuitOfHeldConnection ==
    [][\A p \in Procs :
        /\ (QuitCompletes(p) /\ ops[p].pc = "quitting") =>
                /\ client'.cluster = NoCluster
                /\ ~client'.isConnected
                /\ ops[p].conn \notin OpenIn(conns')
        /\ (StartsOp(p) /\ client.cluster = NoCluster) =>
                /\ CreatesConnection(p)
                /\ ~Created_(client'.cluster)
                /\ client'.cluster \in OpenIn(conns')
                /\ store' = store
        /\ ReceivesHandle(p) => ops'[p].handle \in OpenIn(conns')]_vars

(* ------------------------------- C25 ---------------------------------- *)
\* with this step the get of caller p returns
GetReturns(p) == ReceivesHandle(p) /\ ops'[p].op = "get"

\* C25: a get of a key returns the value v given to the last set of the
\* key, no delete and no expiry in between: a structured value deserialised
\* and equal to v, a string as the same string; and get does not throw for
\* what the payload is.
\* Fails: get parses whatever text it reads, so a string that is JSON text
\* comes back as the number or the object it denotes, and the empty string
\* comes back as null.
C25_RoundTrip ==
    [][\A p \in Procs :
        (GetReturns(p) /\ written # Unwritten) => ops'[p].ret = written]_vars

\* the same for the values that are not strings, and the strings that are
\* not empty and not JSON text (not a claim's formula: it shows where
\* C25_RoundTrip holds)
RoundTripOfOpaqueValues ==
    [][\A p \in Procs :
        (GetReturns(p) /\ written \in {Str(HexSid(1)), Num(TTLText), Obj(ClientRecord)})
            => ops'[p].ret = written]_vars

(* ------------------------------- C26 ---------------------------------- *)
\* request 1 has returned from a createSession that gave S2, and request 2
\* has no call under way, its last one being a removeSession(userId, S1)
\* with S1 # S2
RevokeRaceOver ==
    /\ Returned(1, "createSession") /\ calls[1].ret.t = "created"
    /\ Returned(2, "removeSession")
    /\ calls[2].userId = calls[1].userId
    /\ calls[2].sessionId \notin {"", calls[1].ret.sessionId}

\* C26: in every interleaving of removeSession(userId, S1) calls with a
\* createSession(userId) that returns S2, once both have completed the four
\* slots of S2 are present and validateSession(userId, S2) returns
\* isValid: true.
\* Fails: for an S2 that reads as a JSON number validateSession answers
\* INVALID_SESSION, the slots being all there.
C26_StaleRevokeUnderRace ==
    RevokeRaceOver =>
        /\ \A k \in SlotKeys(calls[1].userId, calls[1].ret.sessionId) : Exists(store, k)
        /\ ValidateOutcome(store, now, calls[1].userId, calls[1].ret.sessionId) = ""

\* the same for the ids that do not read as JSON numbers (not a claim's
\* formula: it shows where C26_StaleRevokeUnderRace holds)
StaleRevokeUnderRaceOfOpaqueIds ==
    (RevokeRaceOver /\ ~IsJSONNumber(calls[1].ret.sessionId)) =>
        /\ \A k \in SlotKeys(calls[1].userId, calls[1].ret.sessionId) : Exists(store, k)
        /\ ValidateOutcome(store, now, calls[1].userId, calls[1].ret.sessionId) = ""

\* the slots of S2 are never touched by the race, whatever S2 is
StaleRevokeLeavesSlots ==
    RevokeRaceOver =>
        \A k \in SlotKeys(calls[1].userId, calls[1].ret.sessionId) : Exists(store, k)

(* ------------------------------- C27 ---------------------------------- *)
\* both requests have returned from a createSession of the same user
LoginRaceOver ==
    /\ \A p \in Procs : Returned(p, "createSession") /\ calls[p].ret.t = "created"
    /\ calls[1].userId = calls[2].userId

\* the session whose write of the pointer landed last: the one the pointer
\* holds
Winner == store[getActiveSessionKey(calls[1].userId)].val.s

\* C27: two createSession calls of the same user: once both have completed,
\* the pointer holds the id of one of them, validateSession returns
\* isValid: true for that one and INVALID_SESSION for the other.
\* Fails: a winner that reads as a JSON number is answered INVALID_SESSION.
C27_LoginRace ==
    LoginRaceOver =>
        /\ Exists(store, getActiveSessionKey(calls[1].userId))
        /\ \E p \in Procs :
            /\ calls[p].ret.sessionId = Winner
            /\ ValidateOutcome(store, now, calls[p].userId, Winner) = ""
            /\ \A q \in Procs \ {p} :
                ValidateOutcome(store, now, calls[q].userId, calls[q].ret.sessionId)
                    = "INVALID_SESSION"

\* the same for winners that do not read as JSON numbers (not a claim's
\* formula: it shows where C27_LoginRace holds)
LoginRaceOfOpaqueIds ==
    (LoginRaceOver /\ Exists(store, getActiveSessionKey(calls[1].userId))
        /\ ~IsJSONNumber(Winner)) =>
        \E p \in Procs :
            /\ calls[p].ret.sessionId = Winner
            /\ ValidateOutcome(store, now, calls[p].userId, Winner) = ""
            /\ \A q \in Procs \ {p} :
                ValidateOutcome(store, now, calls[q].userId, calls[q].ret.sessionId)
                    = "INVALID_SESSION"

\* the pointer is there and holds the id of one of the two, whatever the ids
LoginRaceHasWinner ==
    LoginRaceOver =>
        /\ Exists(store, getActiveSessionKey(calls[1].userId))
        /\ Winner \in {calls[p].ret.sessionId : p \in Procs}
        /\ calls[1].ret.sessionId # calls[2].ret.sessionId

\* the two calls overlapped (neither found a pointer nor a quiet service
\* when it started) and the one that drew its id first wrote its pointer last
LoginRaceOverlapped ==
    /\ LoginRaceOver
    /\ \A p \in Procs : calls[p].pre = ""
    /\ Exists(store, getActiveSessionKey(calls[1].userId))
    /\ Winner = HexSid(1)

(* ------------------------------- C28 ---------------------------------- *)
\* the store calls of validateSession
ValidateSteps(P, F) ==
    \E p \in P, f \in F :
        \/ VS_GetActive(p, f)
        \/ VS_GetRecord(p, f)
        \/ VS_SetRecord(p, f)
        \/ \E o \in calls[p].pend : VS_Expire(p, o, f)

\* a valid session: validateSession would accept it, from the store st at
\* time t, and its four slots are there
ValidSession(st, t, userId, sessionId) ==
    /\ ValidateOutcome(st, t, userId, sessionId) = ""
    /\ \A k \in SlotKeys(userId, sessionId) : Exists(st, k)

\* the session is valid still in st at t, none of the slots it has in the
\* store being gone
StaysValid(st, t, userId, sessionId) ==
    /\ ValidateOutcome(st, t, userId, sessionId) = ""
    /\ \A k \in SlotKeys(userId, sessionId) : Exists(store, k) => Exists(st, k)

\* time passes while validateSession calls are under way, their session
\* staying valid: neither its soft timeout nor the time-to-live of one of
\* its slots runs out
Elapse ==
    /\ now < MaxTime
    /\ \E p \in Procs : ~Callable(p)
    /\ \A p \in Procs :
        ~Callable(p) =>
            /\ calls[p].op = "validateSession"
            /\ StaysValid(Age(store), now + 1, calls[p].userId, calls[p].sessionId)
    /\ now' = now + 1
    /\ store' = Age(store)
    /\ UNCHANGED <<clientVars, nextSid, calls, orphans, failures, handover>>

\* the requests of a user validate the session the user holds, a valid one,
\* each at its own pace; logins happen while no validation is under way,
\* every store call succeeds
NextValidateRace ==
    \/ Tick
    \/ Elapse
    \/ Callable(2) /\ CreateSession({1}, {FALSE}, {FALSE})
    \/ RemoveAllSteps({1}, {FALSE})
    \/ \E p \in Procs, u \in Users, s \in Presentable({FALSE}) :
        /\ \A q \in Procs : Callable(q) \/ calls[q].op = "validateSession"
        /\ ValidSession(store, now, u, s)
        /\ Call_validateSession(p, u, s)
    \/ ValidateSteps(Procs, {FALSE})

SpecValidateRace == Init /\ [][NextValidateRace]_vars

\* both requests have returned from a validateSession of the same session
ValidateRaceOver ==
    /\ \A p \in Procs : Returned(p, "validateSession")
    /\ calls[1].userId = calls[2].userId
    /\ calls[1].sessionId = calls[2].sessionId

\* C28: two validateSession(userId, S) calls for a valid session S, in any
\* interleaving: both return isValid: true, and once both have completed
\* the four slots are present, the pointer holds S, the record is the one
\* of S, and its lastActivity is the value one of the two calls wrote (the
\* record is the session one of them returned).
C28_ConcurrentValidate ==
    ValidateRaceOver =>
        LET userId == calls[1].userId
            S == calls[1].sessionId
        IN  /\ \A p \in Procs : calls[p].ret.isValid
            /\ \A k \in SlotKeys(userId, S) : Exists(store, k)
            /\ RedisGet(store, getActiveSessionKey(userId)) = Str(S)
            /\ getJson(store, getSessionKey(userId)).r.sessionId = S
            /\ \E p \in Procs :
                getJson(store, getSessionKey(userId)) = calls[p].ret.session

\* the two calls read the record at different times, and the one that read
\* it first wrote it last: the record holds the earlier lastActivity
C28_Witness ==
    /\ ValidateRaceOver
    /\ \A p \in Procs : calls[p].ret.isValid
    /\ \E p, q \in Procs :
        /\ calls[p].ret.session.r.lastActivity < calls[q].ret.session.r.lastActivity
        /\ getJson(store, getSessionKey(calls[p].userId)) = calls[p].ret.session

(* ------------------------------- C29 ---------------------------------- *)
\* with this step the purge of the createSession call of p is over and the
\* call is about to issue its first write
PurgeGivesWay(p) ==
    /\ calls[p].op = "createSession" /\ Steps(p)
    /\ calls'[p].pc = "cs_set_record"

\* C29: within one createSession call, every delete the purge issued has
\* completed when the first write of the new session is issued: the call
\* gets to the write of the record out of its purge only, and no delete of
\* the purge is under way still.
\* Fails: Promise.all rejects with the first delete that fails, its other
\* deletes being under way, removeAllUserSessions answers false and
\* createSession goes on to write.
C29_PurgeThenWrite ==
    [][\A p \in Procs :
        PurgeGivesWay(p) =>
            /\ calls[p].pc \in {"ra_get", "ra_dels"}
            /\ calls[p].pc = "ra_dels" => Cardinality(calls[p].pend) = 1
            /\ orphans' = orphans]_vars

\* the same for a purge no store call of which fails (not a claim's formula:
\* it shows where C29_PurgeThenWrite holds)
PurgeThenWriteWithoutFailure ==
    [][\A p \in Procs :
        (PurgeGivesWay(p) /\ failures' = failures) =>
            /\ calls[p].pc = "ra_dels"
            /\ Cardinality(calls[p].pend) = 1
            /\ orphans' = orphans]_vars

\* createSession has returned a session, and a delete of its purge that was
\* under way when it wrote has taken the record out since
LateDeleteTookRecord ==
    /\ Returned(1, "createSession") /\ calls[1].ret.t = "created"
    /\ failures > 0
    /\ HasPointer(store, "u1")
    /\ ~HasRecord(store, "u1")

(* ------------------------------- C30 ---------------------------------- *)
\* C30: a purge that fails fails the creation: when a store call of the
\* purge at the start of createSession fails (removeAllUserSessions answers
\* false), the call ends there with the creation error, and so writes none
\* of the four slots of a new session.
\* Fails: createSession does not look at what removeAllUserSessions returns.
C30_FailedPurgeFailsCreation ==
    [][\A p \in Procs :
        (calls[p].op = "createSession" /\ StoreCallFailed(p)
            /\ calls[p].pc \in {"ra_get", "ra_dels"}) =>
            /\ calls'[p].pc = "done"
            /\ calls'[p].ret = Raised]_vars

\* createSession has returned a session although a store call of its purge
\* failed: the slots of the new session are written
CreatedAfterFailedPurge ==
    /\ Returned(1, "createSession") /\ calls[1].ret.t = "created"
    /\ failures > 0
    /\ HasPointer(store, "u1") /\ HasRecord(store, "u1")

(* ------------------------------- C31 ---------------------------------- *)
\* the Session Record of userId was created or refreshed 24 hours ago or
\* longer
RecordOutlived(st, t, userId) ==
    /\ HasRecord(st, userId)
    /\ DateNow(t) - getJson(st, getSessionKey(userId)).r.lastActivity >= SESSION_TTL * 1000

\* C31: a session that is not validated, refreshed or revoked again is
\* destroyed by the store alone: 24 hours after the last create or refresh
\* its four slots have expired, none is in the store, and validateSession
\* does not accept it.
\* Fails: RedisClient.set gives no slot a time-to-live, the slots of a
\* session createSession wrote never expire.
C31_NaturalExpiry ==
    \A u \in Users :
        RecordOutlived(store, now, u) =>
            LET S == getJson(store, getSessionKey(u)).r.sessionId
            IN  /\ \A k \in SlotKeys(u, S) : ~Exists(store, k)
                /\ ValidateOutcome(store, now, u, S) # ""

\* 24 hours after createSession, no call made since, the four slots of the
\* session are in the store, none with a time-to-live, and validateSession
\* accepts it
SlotsOutliveTTL ==
    /\ \E u \in Users :
        /\ RecordOutlived(store, now, u)
        /\ LET S == getJson(store, getSessionKey(u)).r.sessionId
           IN  /\ \A k \in SlotKeys(u, S) : Exists(store, k) /\ store[k].ttl = NoTTL
               /\ ValidateOutcome(store, now, u, S) = ""
    /\ \A p \in Procs : calls[p].pc = "idle"

(* ------------------------------- C32 ---------------------------------- *)
\* the slot at key carries the full 24-hour time-to-live
FullTTL(st, key) == Exists(st, key) /\ st[key].ttl = SESSION_TTL

\* C32: when updateLastActivity(userId) returns true, the four slots of the
\* session (record, pointer, index, reverse index) carry the full 24-hour
\* time-to-live again.
\* Fails: the record is written without a time-to-live, and the reverse
\* index is not among the keys updateLastActivity refreshes.
C32_UpdateRefreshesTTLs ==
    [][\A p \in Procs :
        (Returns(p, "updateLastActivity") /\ calls'[p].ret = Bool(TRUE)) =>
            LET userId == calls'[p].userId
                S == getJson(store', getSessionKey(userId)).r.sessionId
            IN  \A k \in SlotKeys(userId, S) : FullTTL(store', k)]_vars

\* what does hold: the pointer and the index that are in the store carry the
\* full time-to-live when updateLastActivity returns true
UpdateRefreshesPointerAndIndex ==
    [][\A p \in Procs :
        (Returns(p, "updateLastActivity") /\ calls'[p].ret = Bool(TRUE)) =>
            \A k \in {getActiveSessionKey(calls'[p].userId),
                      getUserSessionsKey(calls'[p].userId)} :
                Exists(store', k) => FullTTL(store', k)]_vars

\* updateLastActivity has returned true for a session whose four slots are
\* in the store: the record and the reverse index have no time-to-live
UpdateLeavesSlotsWithoutTTL ==
    /\ Returned(1, "updateLastActivity") /\ calls[1].ret = Bool(TRUE)
    /\ LET S == getJson(store, getSessionKey("u1")).r.sessionId
       IN  /\ \A k \in SlotKeys("u1", S) : Exists(store, k)
           /\ store[getSessionKey("u1")].ttl = NoTTL
           /\ store[getSessionIdKey(S)].ttl = NoTTL
           /\ FullTTL(store, getActiveSessionKey("u1"))

(* ------------------------------- C33 ---------------------------------- *)
\* C33: whenever no call is under way, the store holds at most the four
\* slots of the user's current session: at most four keys, and no
\* Session-Id Reverse Index entry but the one of the session the pointer
\* holds.
\* Fails: the purges delete the reverse index of the id they read from the
\* index, which is "86400": the entry of every session ever created stays.
C33_FixedKeySpace ==
    Quiescent => \A u \in Users :
        /\ Cardinality(DOMAIN store) <= 4
        /\ ReverseKeys(store) \subseteq {getSessionIdKey(PointerText(store, u))}

\* what does hold: the record, the pointer and the index have one key each
\* per user, the keys beyond these three are reverse index entries
OnlyReverseIndexGrows ==
    \A k \in DOMAIN store :
        k \in ReverseKeys(store)
            \/ \E u \in Users : k \in {getSessionKey(u), getActiveSessionKey(u),
                                      getUserSessionsKey(u)}

\* after a second login and a logout no call is under way, the user has no
\* session, and the reverse index entries of both sessions are in the store
ReverseIndexLeaked ==
    /\ Quiescent
    /\ ~HasPointer(store, "u1") /\ ~HasRecord(store, "u1")
    /\ Cardinality(ReverseKeys(store)) = MaxSessions

(* ------------------------------- C34 ---------------------------------- *)
\* C34: whenever validateSession(userId, S) returns isValid: true, the
\* session it returns has userId and S as its userId and sessionId, in every
\* interleaving with createSession and validateSession calls of the user.
\* Fails: the record is read after the pointer and its sessionId is not
\* compared; a createSession that lands between the two reads makes
\* validateSession(userId, S1) return the record of S2.
C34_ValidatedRecordIsOfSession ==
    \A p \in Procs :
        (Returned(p, "validateSession") /\ calls[p].ret.isValid) =>
            /\ calls[p].ret.session.r.userId = calls[p].userId
            /\ calls[p].ret.session.r.sessionId = calls[p].sessionId

\* what does hold: the record returned is one of the user
ValidatedRecordIsOfUser ==
    \A p \in Procs :
        (Returned(p, "validateSession") /\ calls[p].ret.isValid) =>
            calls[p].ret.session.r.userId = calls[p].userId

(* ------------------------------- C35 ---------------------------------- *)
\* request 1 logs in, logs out and removes the sessions of the user while
\* request 2 validates and refreshes, each at its own pace, every store call
\* succeeding, no time passing
NextRefreshRace ==
    \/ CreateSession({1}, {FALSE}, {FALSE})
    \/ \E u \in Users : Call_removeSession(1, u, "")
    \/ RemoveAllUserSessions({1})
    \/ RemoveAllSteps({1}, {FALSE})
    \/ RemoveSteps({1}, {FALSE})
    \/ ValidateSession({2}, {FALSE}, {FALSE})
    \/ UpdateLastActivity({2}, {FALSE})

SpecRefreshRace == Init /\ [][NextRefreshRace]_vars

\* the user has a Session Record and no Active Session Pointer holding the
\* sessionId of the record
RecordWithoutPointer(st, userId) ==
    /\ HasRecord(st, userId)
    /\ PointerText(st, userId) # getJson(st, getSessionKey(userId)).r.sessionId

\* C35: a refresh does not resurrect revoked state: whatever purge completes
\* while a validateSession or updateLastActivity call is between its reads
\* and its record write, once no call is under way the user has no Session
\* Record without a matching Active Session Pointer.
\* Fails: the record write of the refresh lands after the purge and puts the
\* record back.
C35_NoResurrection ==
    Quiescent => \A u \in Users : ~RecordWithoutPointer(store, u)

\* what does hold: while one of the two requests has made no call, no
\* record is without its pointer
NoResurrectionInSequence ==
    (Quiescent /\ \E p \in Procs : calls[p].pc = "idle") =>
        \A u \in Users : ~RecordWithoutPointer(store, u)

\* updateLastActivity has returned true, the logout that ran meanwhile has
\* returned, and the user has a record and no pointer
RecordResurrected ==
    /\ Returned(1, "removeSession")
    /\ Returned(2, "updateLastActivity") /\ calls[2].ret = Bool(TRUE)
    /\ HasRecord(store, "u1") /\ ~HasPointer(store, "u1")

(* ------------------------------- C36 ---------------------------------- *)
\* the lastActivity of the Session Record of userId in the store st
LastActivity(st, userId) == getJson(st, getSessionKey(userId)).r.lastActivity

\* the step leaves the user with a record of the same session as before
SameSessionStays(userId) ==
    /\ HasRecord(store, userId) /\ HasRecord(store', userId)
    /\ getJson(store', getSessionKey(userId)).r.sessionId
            = getJson(store, getSessionKey(userId)).r.sessionId

\* C36: the lastActivity of the Session Record never decreases while the
\* sessionId stays the same, in every interleaving of refreshing calls: a
\* record write that lands later does not replace a newer lastActivity with
\* an older one.
\* Fails: each call writes the time it stamped when it read the record; the
\* call that read first may write last.
C36_LastActivityMonotone ==
    [][\A u \in Users :
        SameSessionStays(u) => LastActivity(store', u) >= LastActivity(store, u)]_vars

\* a validateSession call is about to write a lastActivity older than the
\* one the record holds, written by a call that stamped it later
OlderStampPending ==
    \E p \in Procs :
        /\ calls[p].op = "validateSession" /\ calls[p].pc = "vs_set_record"
        /\ HasRecord(store, calls[p].userId)
        /\ calls[p].data.r.lastActivity < LastActivity(store, calls[p].userId)

(* ------------------------------- C37 ---------------------------------- *)
\* C37: getActiveSession deletes the Active Session Pointer only when the
\* Session Record is absent from the store: when the read of the record
\* fails with a store error the call returns null there, and no step of the
\* call takes the pointer of a user who has a record.
\* Fails: getJson answers null for a read that failed, and getActiveSession
\* takes the null for a missing record.
C37_DeletesOnlyDanglingPointer ==
    [][\A p \in Procs :
        (calls[p].op = "getActiveSession" /\ Steps(p) /\ ~Callable(p)) =>
            /\ (calls[p].pc = "ga_get_record" /\ failures' > failures) =>
                    calls'[p].pc = "done" /\ calls'[p].ret = Null
            /\ (HasPointer(store, calls[p].userId)
                    /\ ~HasPointer(store', calls[p].userId)) =>
                    ~HasRecord(store, calls[p].userId)]_vars

\* what does hold: no store call of it failing, getActiveSession takes the
\* pointer of a user without a record only
DeletesOnlyDanglingPointerWithoutFailure ==
    [][\A p \in Procs :
        (calls[p].op = "getActiveSession" /\ Steps(p) /\ ~Callable(p) /\ failures = 0
            /\ HasPointer(store, calls[p].userId)
            /\ ~HasPointer(store', calls[p].userId)) =>
            ~HasRecord(store, calls[p].userId)]_vars

\* the read of the record has failed, and getActiveSession is about to
\* delete the pointer of a session whose record is in the store
PointerLostToFailedRead ==
    /\ calls[1].op = "getActiveSession" /\ calls[1].pc = "ga_del_active"
    /\ failures > 0
    /\ orphans = {}
    /\ HasRecord(store, "u1") /\ HasPointer(store, "u1")
    /\ ValidateOutcome(store, now, "u1", PointerText(store, "u1")) = ""

(* ------------------------------- C38 ---------------------------------- *)
\* C38: across the operations of the Store Client, the 'connect' and 'error'
\* events of its connections and its quit() calls, at most one cluster
\* connection the client created is open at a time: a connection connect()
\* replaces has been released.
\* Fails: connect() overwrites this.cluster with the new connection and
\* never quits the one it held.
C38_OneOpenConnection == Cardinality(Opened) <= 1

\* what does hold: with one caller and no failure or 'error' event, the
\* client has one connection open at most
OneOpenConnectionOfQuietClient ==
    (failures = 0 /\ ops[2].pc = "idle") => Cardinality(Opened) <= 1

\* one caller alone: after an 'error' event on the connection the client
\* held, the next operation has created a second connection, and both are
\* open
ReplacedConnectionLeaked ==
    /\ ops[2].pc = "idle"
    /\ failures > 0
    /\ ops[1].pc = "done" /\ ops[1].ret # Raised
    /\ Cardinality(Opened) = 2
    /\ client.cluster = 2 /\ conns[1].onError
====
